---- MODULE Spec2Model ----
(***************************************************************************)
(* A model of the breeze SNES emulator core: the 65816 CPU of src/cpu.rs   *)
(* (registers, status flags, stack primitives, opcode bodies, dispatch)    *)
(* and the master-clock scheduler of src/snes.rs (Snes::run).              *)
(*                                                                         *)
(* Three specifications share the variables:                               *)
(*   Spec       the CPU after reset, executing one instruction per step;   *)
(*   SpecStack  the stack primitives pushb/pushw/popb/popw applied to a    *)
(*              CPU whose S and emulation flag are drawn from sets;        *)
(*   SpecSched  the scheduler loop of Snes::run, one action per loop       *)
(*              position (CPU dispatch, one APU step, one PPU step).       *)
(***************************************************************************)
EXTENDS Integers, Sequences, FiniteSets, TLC

(***************************************************************************)
(* Bounds of the model.                                                    *)
(***************************************************************************)
\* instructions executed after reset under Spec
MaxSteps == 3
\* bytes that may be on the shadow stack at once under SpecStack
MaxDepth == 4
\* the master-cycle budget of a run under SpecSched (CY_LIMIT, scaled down)
CyLimit == 110
\* dots in one frame of the picture processor under SpecSched
FrameDots == 10

(***************************************************************************)
(* Status register bits, src/cpu.rs:15-27.                                 *)
(***************************************************************************)
NEG_FLAG == 128
OVERFLOW_FLAG == 64
SMALL_ACC_FLAG == 32
SMALL_INDEX_FLAG == 16
DEC_FLAG == 8
IRQ_FLAG == 4
ZERO_FLAG == 2
CARRY_FLAG == 1

(***************************************************************************)
(* Fixed-width integer helpers (u8 / u16 arithmetic of the source).        *)
(***************************************************************************)
U8(v) == v % 256
U16(v) == v % 65536
Lo(v) == v % 256
Hi(v) == (v \div 256) % 256

\* v & flag # 0, for flag a power of two
Bit(v, flag) == (v \div flag) % 2 = 1

RECURSIVE BitAnd(_, _)
BitAnd(m, n) ==
    IF m = 0 \/ n = 0 THEN 0
    ELSE (m % 2) * (n % 2) + 2 * BitAnd(m \div 2, n \div 2)

BitOr(m, n) == m + n - BitAnd(m, n)

\* p & !v on 8 bits
BitClear(m, n) == m - BitAnd(m, n)

(***************************************************************************)
(* The program's state.                                                    *)
(***************************************************************************)
VARIABLES
    \* Cpu fields, src/cpu.rs:88-107
    a, x, y, s, dbr, pbr, d, pc, p, emulation,
    \* the AddressSpace behind the CPU: (bank * 65536 + addr) -> byte
    mem,
    \* "none", or the panic that aborted emulation
    trap,
    \* "release" once an unchecked addition has wrapped (the build has no
    \* overflow checks); "either" until then
    build,
    \* the bus accesses of the operation executed last, in order
    bus,
    \* Spec: the opcode dispatched last, what dispatch returned, instructions run
    op, cycles, steps,
    \* SpecStack: the operation applied last, its argument, its result, the
    \* values pushed and not yet popped, and S before the first push
    stk_op, stk_arg, stk_ret, shadow, s0,
    \* SpecSched, locals of Snes::run (src/snes.rs:165-170) and its position:
    \* "cpu" at the head of the outer loop, "drain" inside the drain loops
    sched_pc, master_cy, total_apu_cy, total_ppu_cy,
    apu_master_cy_debt, ppu_master_cy_debt,
    \* Peripherals fields (src/snes.rs:27-43)
    hdmaen, nmien, nmi, cy,
    \* the picture processor's position inside its frame
    ppu_dot,
    \* observers: the opcode and DMA cycles of the instruction dispatched
    \* last, instructions dispatched, trigger_nmi calls (in all, and since
    \* the frame began), input latches, vertical blanks reported (in all,
    \* and with NMIs enabled), whether the picture drain was last left by
    \* the NMI break, the picture debt left behind at each NMI break
    sched_op, dma_cy, dispatched, nmi_calls, frame_nmis, latches,
    vblanks, vblanks_enabled, broke, left_debt,
    \* SpecAm: the AddressingMode under test and the implementation that
    \* serves it ("cpu.rs" or "addressing.rs"); the accessor applied last, the
    \* value it was given, what it returned, the effective address it
    \* resolved (<<>> if none), and the accessor before it
    am_mode, am_impl, am_op, am_val, am_ret, am_ea, am_prev,
    \* Peripherals::wram (src/snes.rs:20): index -> byte, and the bus access
    \* served last with the byte it returned
    wram, peri_op, peri_ret,
    \* the Ppu (src/ppu/rendering.rs); the renderer operation executed last
    \* and the Rgb it returned; whose turn it is ("render": render_pixel,
    \* "advance": its caller); observers of the last scanline rebuild: the
    \* sprites it selected, the OAM entries it looked at, its scanline
    ppu, ppu_op, ppu_ret, ppu_pc, visible_sprites, scanned, built_for,
    \* once! (src/spc700/once.rs, src/breeze_core/log_util.rs): the static
    \* REACHED of each call site; each thread's position, the call site it
    \* is at and the times it has reached one; how often each call site's
    \* expression was evaluated, and by which threads
    REACHED, once_pc, once_site, once_visits, once_evals, once_by

cpuVars == <<a, x, y, s, dbr, pbr, d, pc, p, emulation, mem, trap, build, bus>>
dispVars == <<op, cycles, steps>>
stackVars == <<stk_op, stk_arg, stk_ret, shadow, s0>>
runVars == <<sched_pc, master_cy, total_apu_cy, total_ppu_cy,
             apu_master_cy_debt, ppu_master_cy_debt>>
periVars == <<hdmaen, nmien, nmi, cy, ppu_dot>>
obsVars == <<sched_op, dma_cy, dispatched, nmi_calls, frame_nmis, latches,
             vblanks, vblanks_enabled, broke, left_debt>>
schedVars == <<runVars, periVars, obsVars>>
amVars == <<am_mode, am_impl, am_op, am_val, am_ret, am_ea, am_prev>>
devVars == <<wram, peri_op, peri_ret, ppu, ppu_op, ppu_ret, ppu_pc,
             visible_sprites, scanned, built_for>>
onceVars == <<REACHED, once_pc, once_site, once_visits, once_evals, once_by>>
vars == <<cpuVars, dispVars, stackVars, schedVars, amVars, devVars, onceVars>>

(***************************************************************************)
(* The CPU as a value: opcode bodies are functions from Cpu to Cpu.        *)
(* ret is the value the function called last returned.                     *)
(***************************************************************************)
Cpu ==
    [a |-> a, x |-> x, y |-> y, s |-> s, dbr |-> dbr, pbr |-> pbr, d |-> d,
     pc |-> pc, p |-> p, emulation |-> emulation, mem |-> mem, trap |-> trap,
     build |-> build, bus |-> <<>>, ret |-> 0]

SetCpu(c) ==
    /\ a' = c.a /\ x' = c.x /\ y' = c.y /\ s' = c.s
    /\ dbr' = c.dbr /\ pbr' = c.pbr /\ d' = c.d /\ pc' = c.pc
    /\ p' = c.p /\ emulation' = c.emulation
    /\ mem' = c.mem /\ trap' = c.trap /\ build' = c.build /\ bus' = c.bus

Ok(c) == c.trap = "none"
Panic(c, why) == IF Ok(c) THEN [c EXCEPT !.trap = why] ELSE c

(***************************************************************************)
(* AddressSpace, src/cpu.rs:7-13: a byte store; bytes never written read   *)
(* as 0 (Wram::default()).                                                 *)
(***************************************************************************)
Key(bank, addr) == bank * 65536 + addr

MemLoad(m, bank, addr) ==
    IF Key(bank, addr) \in DOMAIN m THEN m[Key(bank, addr)] ELSE 0

Access(kind, bank, addr, val) ==
    [kind |-> kind, bank |-> bank, addr |-> addr, val |-> val]

\* self.mem.load(bank, addr)
Load(c, bank, addr) ==
    IF ~Ok(c) THEN c
    ELSE [c EXCEPT !.ret = MemLoad(c.mem, bank, addr),
                   !.bus = Append(@, Access("load", bank, addr,
                                            MemLoad(c.mem, bank, addr)))]

\* self.mem.store(bank, addr, value)
Store(c, bank, addr, value) ==
    IF ~Ok(c) THEN c
    ELSE [c EXCEPT !.mem = (Key(bank, addr) :> value) @@ @,
                   !.bus = Append(@, Access("store", bank, addr, value))]

(***************************************************************************)
(* Stack primitives, src/cpu.rs:154-197.                                   *)
(***************************************************************************)
PushbNoPin(c, value) ==
    LET c1 == Store(c, 0, c.s, value)
    IN  IF ~Ok(c) THEN c ELSE [c1 EXCEPT !.s = U16(c.s + 65535)]

Pushb(c, value) ==
    LET c1 == Store(c, 0, c.s, value)
    IN  IF ~Ok(c) THEN c
        ELSE IF c.emulation
        THEN IF Hi(c.s) # 1
             THEN Panic(c1, "assert_eq: stack must stay in 0x01xx")
             ELSE [c1 EXCEPT !.s = Hi(c.s) * 256 + U8(Lo(c.s) + 255)]
        ELSE [c1 EXCEPT !.s = U16(c.s + 65535)]

PushwLoFirst(c, value) == Pushb(Pushb(c, Lo(value)), Hi(value))

Pushw(c, value) == Pushb(Pushb(c, Hi(value)), Lo(value))

PopbLoadFirst(c) ==
    IF ~Ok(c) THEN c
    ELSE IF c.emulation
    THEN IF Hi(c.s) # 1
         THEN Panic(c, "assert_eq: stack must stay in 0x01xx")
         ELSE [Load(c, 0, c.s) EXCEPT !.s = Hi(c.s) * 256 + U8(Lo(c.s) + 1)]
    ELSE [Load(c, 0, c.s) EXCEPT !.s = U16(c.s + 1)]

Popb(c) ==
    IF ~Ok(c) THEN c
    ELSE IF c.emulation
    THEN IF Hi(c.s) # 1
         THEN Panic(c, "assert_eq: stack must stay in 0x01xx")
         ELSE LET c1 == [c EXCEPT !.s = Hi(c.s) * 256 + U8(Lo(c.s) + 1)]
              IN  Load(c1, 0, c1.s)
    ELSE LET c1 == [c EXCEPT !.s = U16(c.s + 1)]
         IN  Load(c1, 0, c1.s)

Popw(c) ==
    LET c1 == Popb(c)
        c2 == Popb(c1)
    IN  IF Ok(c2) THEN [c2 EXCEPT !.ret = c2.ret * 256 + c1.ret] ELSE c2

(***************************************************************************)
(* StatusReg, src/cpu.rs:30-72.                                            *)
(***************************************************************************)
SetFlag(pv, flag, value) ==
    IF value THEN (IF Bit(pv, flag) THEN pv ELSE pv + flag)
    ELSE (IF Bit(pv, flag) THEN pv - flag ELSE pv)

small_acc(c) == Bit(c.p, SMALL_ACC_FLAG)
small_index(c) == Bit(c.p, SMALL_INDEX_FLAG)

\* the status register after set_nz(val): flags are set, never cleared
set_nz(pv, val) ==
    IF val = 0 THEN SetFlag(pv, ZERO_FLAG, TRUE)
    ELSE IF Bit(val, 32768) THEN SetFlag(pv, NEG_FLAG, TRUE)
    ELSE pv

set_nz_8(pv, val) ==
    IF val = 0 THEN SetFlag(pv, ZERO_FLAG, TRUE)
    ELSE IF Bit(val, 128) THEN SetFlag(pv, NEG_FLAG, TRUE)
    ELSE pv

(***************************************************************************)
(* Instruction fetch, src/cpu.rs:139-152.  The program image is an input:  *)
(* the byte at (PBR, PC) is the one the environment supplies.              *)
(***************************************************************************)
fetchb(c, b) ==
    IF ~Ok(c) THEN c
    ELSE [c EXCEPT !.pc = U16(c.pc + 1), !.ret = b,
                   !.bus = Append(@, Access("fetch", c.pbr, c.pc, b))]

fetchw(c, w) ==
    LET c1 == fetchb(c, Lo(w))
        c2 == fetchb(c1, Hi(w))
    IN  [c2 EXCEPT !.ret = w]

(***************************************************************************)
(* set_emulation, src/cpu.rs:199-210.                                      *)
(***************************************************************************)
set_emulation(c, value) ==
    IF ~c.emulation /\ value
    THEN [c EXCEPT !.s = 256 + Lo(c.s), !.emulation = value]
    ELSE [c EXCEPT !.emulation = value]

(***************************************************************************)
(* compare / compare8 / branch, src/cpu.rs:326-349.                        *)
(***************************************************************************)
compare(c, m, n) ==
    [c EXCEPT !.p = SetFlag(SetFlag(SetFlag(@, ZERO_FLAG, m = n),
                                    CARRY_FLAG, m >= n),
                            NEG_FLAG, Bit(U16(m - n + 65536), 32768))]

compare8(c, m, n) ==
    [c EXCEPT !.p = SetFlag(SetFlag(SetFlag(@, ZERO_FLAG, m = n),
                                    CARRY_FLAG, m >= n),
                            NEG_FLAG, Bit(U8(m - n + 256), 128))]

branch(c, target) == [c EXCEPT !.pbr = target[1], !.pc = target[2]]

(***************************************************************************)
(* AddressingMode, src/cpu.rs:652-766.  An addressing mode is a record     *)
(* [mode, bank, val].  wraps tells what an unchecked `+` does when it      *)
(* overflows: wrap (release build) or panic (debug build).                 *)
(***************************************************************************)
AM(mode, val) == [mode |-> mode, bank |-> 0, val |-> val]
AML(bank, val) == [mode |-> "AbsoluteLong", bank |-> bank, val |-> val]

IsImmediate(m) == m.mode \in {"Immediate", "Immediate8"}

\* i8 from the operand byte
Signed8(b) == IF b >= 128 THEN b - 256 ELSE b

\* `m + n` on u16
PlusU16(c, m, n, wraps) ==
    IF m + n > 65535
    THEN IF wraps THEN [c EXCEPT !.ret = U16(m + n), !.build = "release"]
         ELSE Panic(c, "attempt to add with overflow")
    ELSE [c EXCEPT !.ret = m + n]

\* address(): ret is <<bank, offset>>
address(c, am, wraps) ==
    IF ~Ok(c) THEN c
    ELSE CASE am.mode = "Absolute" -> [c EXCEPT !.ret = <<c.dbr, am.val>>]
           [] am.mode = "AbsoluteLong" -> [c EXCEPT !.ret = <<am.bank, am.val>>]
           [] am.mode = "AbsIndexedX" ->
                LET c1 == PlusU16(c, am.val, c.x, wraps)
                IN  IF Ok(c1) THEN [c1 EXCEPT !.ret = <<c.dbr, c1.ret>>] ELSE c1
           [] am.mode = "Rel" ->
                [c EXCEPT !.ret = <<c.pbr, U16(c.pc + Signed8(am.val) + 65536)>>]
           [] am.mode = "Direct" -> [c EXCEPT !.ret = <<0, U16(c.d + am.val)>>]
           [] am.mode = "IndirectLongIdx" ->
                LET c1 == PlusU16(c, c.d, am.val, wraps)
                    c2 == IF Ok(c1) THEN PlusU16(c1, c1.ret, c.y, wraps) ELSE c1
                IN  IF Ok(c2) THEN [c2 EXCEPT !.ret = <<0, c2.ret>>] ELSE c2
           [] OTHER ->
                Panic(c, "attempted to take the address of an immediate value")

loadb(c, am, wraps) ==
    IF ~Ok(c) THEN c
    ELSE CASE am.mode = "Immediate" -> Panic(c, "loadb on 16-bit immediate")
           [] am.mode = "Immediate8" -> [c EXCEPT !.ret = am.val]
           [] OTHER ->
                LET c1 == address(c, am, wraps)
                IN  IF Ok(c1) THEN Load(c1, c1.ret[1], c1.ret[2]) ELSE c1

loadw(c, am, wraps) ==
    IF ~Ok(c) THEN c
    ELSE CASE am.mode = "Immediate" -> [c EXCEPT !.ret = am.val]
           [] am.mode = "Immediate8" -> Panic(c, "loadw on 8-bit immediate")
           [] OTHER ->
                LET c1 == address(c, am, wraps)
                    bank == c1.ret[1]
                    addr == c1.ret[2]
                    c2 == Load(c1, bank, addr)
                    c3 == Load(c2, bank, addr + 1)
                IN  IF ~Ok(c1) THEN c1
                    ELSE IF ~(addr < 65535)
                    THEN Panic(c1, "loadw on bank boundary")
                    ELSE [c3 EXCEPT !.ret = c3.ret * 256 + c2.ret]

storeb(c, am, value, wraps) ==
    LET c1 == address(c, am, wraps)
    IN  IF Ok(c1) THEN Store(c1, c1.ret[1], c1.ret[2], value) ELSE c1

\* both bytes are stored at addr (src/cpu.rs:714-715)
storew(c, am, value, wraps) ==
    LET c1 == address(c, am, wraps)
        bank == c1.ret[1]
        addr == c1.ret[2]
    IN  IF ~Ok(c1) THEN c1
        ELSE IF ~(addr < 65535)
        THEN Panic(c1, "loadw on bank boundary")
        ELSE Store(Store(c1, bank, addr, Lo(value)), bank, addr, Hi(value))

(***************************************************************************)
(* AddressingMode, src/cpu/addressing.rs.  The modes are the records above *)
(* with three more: AbsLongIndexedX (bank, val), DirectIndexedX and a      *)
(* IndirectLongIdx that reads its pointer.  cpu.loadb / cpu.storeb are the *)
(* CPU's byte accesses to the bus.                                         *)
(***************************************************************************)
cpu_loadb(c, bank, addr) == Load(c, bank, addr)
cpu_storeb(c, bank, addr, value) == Store(c, bank, addr, value)

\* eff_addr & 0xff000000 == 0, then (bank, addr) from the 24-bit address
Split24(c, eff_addr) ==
    IF eff_addr \div 16777216 # 0 THEN Panic(c, "address overflow")
    ELSE [c EXCEPT !.ret = <<eff_addr \div 65536, eff_addr % 65536>>]

\* the IndirectLongIdx arm of address(): ret is <<bank, offset>>
am_indirect_long_idx(c, offset, wraps) ==
    LET addr_ptr == U16(c.d + offset)
        l == cpu_loadb(c, 0, addr_ptr)
        p1 == PlusU16(l, addr_ptr, 1, wraps)
        h == IF Ok(p1) THEN cpu_loadb(p1, 0, p1.ret) ELSE p1
        p2 == IF Ok(h) THEN PlusU16(h, addr_ptr, 2, wraps) ELSE h
        b == IF Ok(p2) THEN cpu_loadb(p2, 0, p2.ret) ELSE p2
        base_address == b.ret * 65536 + h.ret * 256 + l.ret
    IN  IF Ok(b) THEN Split24(b, base_address + c.y) ELSE b

am_address(c, m, wraps) ==
    IF ~Ok(c) THEN c
    ELSE CASE m.mode = "Absolute" -> [c EXCEPT !.ret = <<c.dbr, m.val>>]
           [] m.mode = "AbsoluteLong" -> [c EXCEPT !.ret = <<m.bank, m.val>>]
           [] m.mode = "AbsLongIndexedX" ->
                Split24(c, m.bank * 65536 + m.val + c.x)
           [] m.mode = "AbsIndexedX" ->
                LET c1 == PlusU16(c, m.val, c.x, wraps)
                IN  IF Ok(c1) THEN [c1 EXCEPT !.ret = <<c.dbr, c1.ret>>] ELSE c1
           [] m.mode = "Rel" ->
                [c EXCEPT !.ret = <<c.pbr, U16(c.pc + Signed8(m.val) + 65536)>>]
           [] m.mode = "Direct" -> [c EXCEPT !.ret = <<0, U16(c.d + m.val)>>]
           [] m.mode = "DirectIndexedX" ->
                [c EXCEPT !.ret = <<0, U16(U16(c.d + m.val) + c.x)>>]
           [] m.mode = "IndirectLongIdx" -> am_indirect_long_idx(c, m.val, wraps)
           [] OTHER ->
                Panic(c, "attempted to take the address of an immediate value")

am_loadb_truncating(c, m, wraps) ==
    IF ~Ok(c) THEN c
    ELSE IF IsImmediate(m) THEN [c EXCEPT !.ret = Lo(m.val)]
    ELSE LET c1 == am_address(c, m, wraps)
         IN  IF Ok(c1) THEN cpu_loadb(c1, c1.ret[1], c1.ret[2]) ELSE c1

am_loadb(c, m, wraps) ==
    IF ~Ok(c) THEN c
    ELSE CASE m.mode = "Immediate" -> Panic(c, "loadb on 16-bit immediate")
           [] m.mode = "Immediate8" -> [c EXCEPT !.ret = m.val]
           [] OTHER ->
                LET c1 == am_address(c, m, wraps)
                IN  IF Ok(c1) THEN cpu_loadb(c1, c1.ret[1], c1.ret[2]) ELSE c1

am_loadw(c, m, wraps) ==
    IF ~Ok(c) THEN c
    ELSE CASE m.mode = "Immediate" -> [c EXCEPT !.ret = m.val]
           [] m.mode = "Immediate8" -> Panic(c, "loadw on 8-bit immediate")
           [] OTHER ->
                LET c1 == am_address(c, m, wraps)
                    bank == c1.ret[1]
                    addr == c1.ret[2]
                    c2 == cpu_loadb(c1, bank, addr)
                    c3 == cpu_loadb(c2, bank, addr + 1)
                IN  IF ~Ok(c1) THEN c1
                    ELSE IF ~(addr < 65535)
                    THEN Panic(c1, "loadw on bank boundary")
                    ELSE [c3 EXCEPT !.ret = c3.ret * 256 + c2.ret]

am_storeb(c, m, value, wraps) ==
    LET c1 == am_address(c, m, wraps)
    IN  IF Ok(c1) THEN cpu_storeb(c1, c1.ret[1], c1.ret[2], value) ELSE c1

am_storew_wrapping(c, m, value, wraps) ==
    LET c1 == am_address(c, m, wraps)
        bank == c1.ret[1]
        addr == c1.ret[2]
    IN  IF ~Ok(c1) THEN c1
        ELSE cpu_storeb(cpu_storeb(c1, bank, addr, Lo(value)),
                        bank, U16(addr + 1), Hi(value))

am_storew(c, m, value, wraps) ==
    LET c1 == am_address(c, m, wraps)
        bank == c1.ret[1]
        addr == c1.ret[2]
    IN  IF ~Ok(c1) THEN c1
        ELSE IF ~(addr < 65535)
        THEN Panic(c1, "storew on bank boundary")
        ELSE cpu_storeb(cpu_storeb(c1, bank, addr, Lo(value)),
                        bank, addr + 1, Hi(value))

(***************************************************************************)
(* Opcode implementations, src/cpu.rs:352-650.  Each takes the CPU after   *)
(* the opcode and its operand were fetched.                                *)
(***************************************************************************)
HiPart(v) == Hi(v) * 256

plp(c) ==
    LET c1 == Popb(c)
    IN  IF Ok(c1) THEN [c1 EXCEPT !.p = c1.ret] ELSE c1

and(c, am, wraps) ==
    IF small_acc(c)
    THEN LET c1 == loadb(c, am, wraps)
             res == BitAnd(Lo(c.a), c1.ret)
         IN  IF ~Ok(c1) THEN c1
             ELSE [c1 EXCEPT !.p = set_nz_8(@, res), !.a = HiPart(c.a) + res]
    ELSE LET c1 == loadw(c, am, wraps)
             res == BitAnd(c.a, c1.ret)
         IN  IF ~Ok(c1) THEN c1
             ELSE [c1 EXCEPT !.p = set_nz(@, res), !.a = res]

adc(c, am, wraps) ==
    LET cin == IF Bit(c.p, CARRY_FLAG) THEN 1 ELSE 0
    IN  IF small_acc(c)
        THEN LET a8 == Lo(c.a)
                 c1 == loadb(c, am, wraps)
                 val == c1.ret
                 sum == a8 + val + cin
                 res == U8(sum)
                 ovf == Bit(a8, 128) = Bit(val, 128) /\ Bit(a8, 128) # Bit(res, 128)
             IN  IF ~Ok(c1) THEN c1
                 ELSE [c1 EXCEPT
                         !.p = SetFlag(SetFlag(@, CARRY_FLAG, sum > 255),
                                       OVERFLOW_FLAG, ovf),
                         !.a = HiPart(c.a) + res]
        ELSE LET c1 == loadw(c, am, wraps)
                 val == c1.ret
                 sum == c.a + val + cin
                 res == U16(sum)
                 ovf == Bit(c.a, 32768) = Bit(val, 32768)
                        /\ Bit(c.a, 32768) # Bit(res, 32768)
             IN  IF ~Ok(c1) THEN c1
                 ELSE [c1 EXCEPT
                         !.p = SetFlag(SetFlag(@, CARRY_FLAG, sum > 65535),
                                       OVERFLOW_FLAG, ovf),
                         !.a = res]

rol_a(c) ==
    IF small_acc(c)
    THEN LET a8 == Lo(c.a)
             res == U8(a8 * 2) + (a8 \div 128)
         IN  [c EXCEPT !.p = set_nz_8(SetFlag(@, CARRY_FLAG, Bit(c.a, 128)), res),
                       !.a = HiPart(c.a) + res]
    ELSE LET res == U16(c.a * 2) + (c.a \div 32768)
         IN  [c EXCEPT !.p = set_nz(SetFlag(@, CARRY_FLAG, Bit(c.a, 32768)), res),
                       !.a = res]

tax(c) ==
    LET av == IF small_acc(c) THEN Lo(c.a) ELSE c.a
    IN  IF small_index(c)
        THEN [c EXCEPT !.p = set_nz_8(@, Lo(av)), !.x = HiPart(c.x) + Lo(av)]
        ELSE [c EXCEPT !.p = set_nz(@, av), !.x = av]

iny(c) ==
    IF small_index(c)
    THEN LET res == U8(Lo(c.y) + 1)
         IN  [c EXCEPT !.p = set_nz_8(@, res), !.y = HiPart(c.y) + res]
    ELSE LET res == U16(c.y + 1)
         IN  [c EXCEPT !.p = set_nz(@, res), !.y = res]

pha(c) == IF small_acc(c) THEN Pushb(c, Lo(c.a)) ELSE Pushw(c, c.a)

pla(c) ==
    IF small_acc(c)
    THEN LET c1 == Popb(c)
         IN  IF ~Ok(c1) THEN c1
             ELSE [c1 EXCEPT !.p = set_nz_8(@, c1.ret), !.a = HiPart(c.a) + c1.ret]
    ELSE LET c1 == Popw(c)
         IN  IF ~Ok(c1) THEN c1
             ELSE [c1 EXCEPT !.p = set_nz(@, c1.ret), !.a = c1.ret]

bra(c, am, wraps) ==
    LET c1 == address(c, am, wraps)
    IN  IF Ok(c1) THEN branch(c1, c1.ret) ELSE c1

bvs(c, am, wraps) == IF Bit(c.p, OVERFLOW_FLAG) THEN bra(c, am, wraps) ELSE c

bne(c, am, wraps) == IF ~Bit(c.p, ZERO_FLAG) THEN bra(c, am, wraps) ELSE c

cmp(c, am, wraps) ==
    IF small_acc(c)
    THEN LET c1 == loadb(c, am, wraps)
         IN  IF Ok(c1) THEN compare8(c1, Lo(c.a), c1.ret) ELSE c1
    ELSE LET c1 == loadw(c, am, wraps)
         IN  IF Ok(c1) THEN compare(c1, c.a, c1.ret) ELSE c1

cpx(c, am, wraps) ==
    IF small_index(c)
    THEN LET c1 == loadb(c, am, wraps)
         IN  IF Ok(c1) THEN compare8(c1, Lo(c.x), c1.ret) ELSE c1
    ELSE LET c1 == loadw(c, am, wraps)
         IN  IF Ok(c1) THEN compare(c1, c.x, c1.ret) ELSE c1

php(c) == Pushb(c, c.p)

rts_bank_first(c) ==
    LET c1 == Popb(c)
        c2 == Popb(c1)
        c3 == Popb(c2)
    IN  IF Ok(c3) THEN [c3 EXCEPT !.pbr = c1.ret, !.pc = c3.ret * 256 + c2.ret]
        ELSE c3

rts(c) ==
    LET c1 == Popb(c)
        c2 == Popb(c1)
        c3 == Popb(c2)
    IN  IF Ok(c3) THEN [c3 EXCEPT !.pbr = c3.ret, !.pc = c2.ret * 256 + c1.ret]
        ELSE c3

jsr_low_first(c, am, wraps) ==
    LET c1 == Pushb(c, c.pbr)
        c2 == Pushb(c1, Lo(c.pc))
        c3 == Pushb(c2, Hi(c.pc))
        c4 == address(c3, am, wraps)
    IN  IF Ok(c4) THEN [c4 EXCEPT !.pc = c4.ret[2]] ELSE c4

jsr(c, am, wraps) ==
    LET c1 == Pushb(c, c.pbr)
        c2 == Pushb(c1, Hi(c.pc))
        c3 == Pushb(c2, Lo(c.pc))
        c4 == address(c3, am, wraps)
    IN  IF Ok(c4) THEN [c4 EXCEPT !.pc = c4.ret[2]] ELSE c4

cli(c) == [c EXCEPT !.p = SetFlag(@, IRQ_FLAG, FALSE)]

sei(c) == [c EXCEPT !.p = SetFlag(@, IRQ_FLAG, TRUE)]

stz(c, am, wraps) == storeb(c, am, 0, wraps)

lda_whole(c, am, wraps) ==
    LET c1 == IF small_acc(c) THEN loadb(c, am, wraps) ELSE loadw(c, am, wraps)
    IN  IF ~Ok(c1) THEN c1
        ELSE [c1 EXCEPT !.p = IF small_acc(c) THEN set_nz_8(@, c1.ret)
                                ELSE set_nz(@, c1.ret),
                        !.a = c1.ret]

lda(c, am, wraps) ==
    IF small_acc(c)
    THEN LET c1 == loadb(c, am, wraps)
         IN  IF ~Ok(c1) THEN c1
             ELSE [c1 EXCEPT !.p = set_nz_8(@, c1.ret), !.a = HiPart(c.a) + c1.ret]
    ELSE LET c1 == loadw(c, am, wraps)
         IN  IF ~Ok(c1) THEN c1
             ELSE [c1 EXCEPT !.p = set_nz(@, c1.ret), !.a = c1.ret]

ldy(c, am, wraps) ==
    IF small_index(c)
    THEN LET c1 == loadb(c, am, wraps)
         IN  IF ~Ok(c1) THEN c1
             ELSE [c1 EXCEPT !.p = set_nz_8(@, c1.ret), !.y = HiPart(c.y) + c1.ret]
    ELSE LET c1 == loadw(c, am, wraps)
         IN  IF ~Ok(c1) THEN c1
             ELSE [c1 EXCEPT !.p = set_nz(@, c1.ret), !.y = c1.ret]

ldx(c, am, wraps) ==
    IF small_index(c)
    THEN LET c1 == loadb(c, am, wraps)
         IN  IF ~Ok(c1) THEN c1
             ELSE [c1 EXCEPT !.p = set_nz_8(@, c1.ret), !.x = HiPart(c.x) + c1.ret]
    ELSE LET c1 == loadw(c, am, wraps)
         IN  IF ~Ok(c1) THEN c1
             ELSE [c1 EXCEPT !.p = set_nz(@, c1.ret), !.x = c1.ret]

sta(c, am, wraps) ==
    IF small_acc(c) THEN storeb(c, am, Lo(c.a), wraps)
    ELSE storew(c, am, c.a, wraps)

clc(c) == [c EXCEPT !.p = SetFlag(@, CARRY_FLAG, FALSE)]

xce(c) ==
    set_emulation([c EXCEPT !.p = SetFlag(@, CARRY_FLAG, c.emulation)],
                  Bit(c.p, CARRY_FLAG))

rep_any_mode(c, am, wraps) ==
    LET c1 == loadb(c, am, wraps)
    IN  IF Ok(c1) THEN [c1 EXCEPT !.p = BitClear(@, c1.ret)] ELSE c1

rep(c, am, wraps) ==
    IF c.emulation THEN Panic(c, "assertion failed: !self.emulation")
    ELSE LET c1 == loadb(c, am, wraps)
         IN  IF Ok(c1) THEN [c1 EXCEPT !.p = BitClear(@, c1.ret)] ELSE c1

sep(c, am, wraps) ==
    IF c.emulation THEN Panic(c, "assertion failed: !self.emulation")
    ELSE LET c1 == loadb(c, am, wraps)
         IN  IF Ok(c1) THEN [c1 EXCEPT !.p = BitOr(@, c1.ret)] ELSE c1

tcd(c) == [c EXCEPT !.p = set_nz(@, c.a), !.d = c.a]

tcs(c) == [c EXCEPT !.s = c.a]

ill_returns(c) == c

ill(c) == Panic(c, "illegal CPU opcode")

(***************************************************************************)
(* Cpu::new, src/cpu.rs:112-137: the reset state, PC from the RESET vector.*)
(***************************************************************************)
ResetCpuHighFirst(pcl, pch) ==
    [a |-> 0, x |-> 0, y |-> 0, s |-> 256, dbr |-> 0, pbr |-> 0, d |-> 0,
     pc |-> pcl * 256 + pch,
     p |-> SMALL_ACC_FLAG + SMALL_INDEX_FLAG + IRQ_FLAG,
     emulation |-> TRUE, mem |-> <<>>, trap |-> "none", build |-> "either",
     bus |-> <<>>, ret |-> 0]

ResetCpu(pcl, pch) ==
    [a |-> 0, x |-> 0, y |-> 0, s |-> 256, dbr |-> 0, pbr |-> 0, d |-> 0,
     pc |-> pch * 256 + pcl,
     p |-> SMALL_ACC_FLAG + SMALL_INDEX_FLAG + IRQ_FLAG,
     emulation |-> TRUE, mem |-> <<>>, trap |-> "none", build |-> "either",
     bus |-> <<>>, ret |-> 0]

\* RESET vector, emulation mode
RESET_VEC8 == 65532

\* Cpu::new(mem): the two vector bytes are loaded from bank 0
new(m) ==
    [ResetCpu(MemLoad(m, 0, RESET_VEC8), MemLoad(m, 0, RESET_VEC8 + 1))
        EXCEPT !.mem = m]

InitCpu(c) ==
    /\ a = c.a /\ x = c.x /\ y = c.y /\ s = c.s
    /\ dbr = c.dbr /\ pbr = c.pbr /\ d = c.d /\ pc = c.pc
    /\ p = c.p /\ emulation = c.emulation
    /\ mem = c.mem /\ trap = c.trap /\ build = c.build /\ bus = c.bus

InitDisp == op = -1 /\ cycles = 0 /\ steps = 0
InitStk == stk_op = "none" /\ stk_arg = 0 /\ stk_ret = 0 /\ shadow = <<>> /\ s0 = s

\* no addressing mode under test
\* Peripherals::new: working RAM zeroed, nothing accessed yet
InitPeri ==
    /\ wram = << >>
    /\ peri_op = [kind |-> "none", bank |-> 0, addr |-> 0, val |-> 0]
    /\ peri_ret = 0

\* Peripherals::new with a picture processor that has rendered nothing
InitDev ==
    /\ InitPeri
    /\ ppu = << >> /\ ppu_op = "none" /\ ppu_ret = [r |-> 0, g |-> 0, b |-> 0]
    /\ ppu_pc = "render"
    /\ visible_sprites = << >> /\ scanned = 0 /\ built_for = -1

\* the call sites of once! (one static REACHED each) and the threads that
\* reach them
OnceSites == {"spc700", "breeze_core"}
NumThreads == 2
MaxVisits == 2
OnceThreads == 1..NumThreads

\* ATOMIC_BOOL_INIT: no call site reached, no thread inside the macro
InitOnce ==
    /\ REACHED = [c \in OnceSites |-> FALSE]
    /\ once_pc = [t \in OnceThreads |-> "out"]
    /\ once_site = [t \in OnceThreads |-> "spc700"]
    /\ once_visits = [t \in OnceThreads |-> 0]
    /\ once_evals = [c \in OnceSites |-> 0]
    /\ once_by = [c \in OnceSites |-> {}]

InitAm ==
    /\ am_mode = AM("Immediate8", 0) /\ am_impl = "cpu.rs"
    /\ am_op = "none" /\ am_val = 0 /\ am_ret = 0 /\ am_ea = <<>>
    /\ am_prev = [op |-> "none", val |-> 0, ea |-> <<>>]

\* Peripherals::new (src/snes.rs:47-60) and the locals of Snes::run
InitSched ==
    /\ sched_pc = "cpu"
    /\ master_cy = 0 /\ total_apu_cy = 0 /\ total_ppu_cy = 0
    /\ apu_master_cy_debt = 0 /\ ppu_master_cy_debt = 0
    /\ hdmaen = 0 /\ nmien = 0 /\ nmi = FALSE /\ cy = 0
    /\ ppu_dot = 0
    /\ sched_op = -1 /\ dma_cy = 0 /\ dispatched = 0
    /\ nmi_calls = 0 /\ frame_nmis = 0 /\ latches = 0
    /\ vblanks = 0 /\ vblanks_enabled = 0 /\ broke = FALSE /\ left_debt = <<>>

(***************************************************************************)
(* Addressing mode construction, src/cpu.rs:768-810: the operand bytes     *)
(* follow the opcode; ret is the AddressingMode.                           *)
(***************************************************************************)
indirect_long_idx(c, b) == [fetchb(c, b) EXCEPT !.ret = AM("IndirectLongIdx", b)]
absolute(c, w) == [fetchw(c, w) EXCEPT !.ret = AM("Absolute", w)]
absolute_long(c, w, bank) == [fetchb(fetchw(c, w), bank) EXCEPT !.ret = AML(bank, w)]
absolute_indexed_x(c, w) == [fetchw(c, w) EXCEPT !.ret = AM("AbsIndexedX", w)]
rel(c, b) == [fetchb(c, b) EXCEPT !.ret = AM("Rel", b)]
direct(c, b) == [fetchb(c, b) EXCEPT !.ret = AM("Direct", b)]
immediate8(c, b) == [fetchb(c, b) EXCEPT !.ret = AM("Immediate8", b)]
immediate_acc_byte(c, v) == [fetchb(c, v) EXCEPT !.ret = AM("Immediate8", v)]

immediate_acc(c, v) ==
    IF small_acc(c) THEN [fetchb(c, v) EXCEPT !.ret = AM("Immediate8", v)]
    ELSE [fetchw(c, v) EXCEPT !.ret = AM("Immediate", v)]
immediate_index(c, v) ==
    IF small_index(c) THEN [fetchb(c, v) EXCEPT !.ret = AM("Immediate8", v)]
    ELSE [fetchw(c, v) EXCEPT !.ret = AM("Immediate", v)]

(***************************************************************************)
(* Cpu::dispatch, src/cpu.rs:237-324.                                      *)
(***************************************************************************)
CYCLE_TABLE ==
    <<7,6,7,4,5,3,5,6, 3,2,2,4,6,4,6,5,
      2,5,5,7,5,4,6,6, 2,4,2,2,6,4,7,5,
      6,6,8,4,3,3,5,6, 4,2,2,5,4,4,6,5,
      2,5,5,7,4,4,6,6, 2,4,2,2,4,4,7,5,
      7,6,2,4,7,3,5,6, 3,2,2,3,3,4,6,5,
      2,5,5,7,7,4,6,6, 2,4,3,2,4,4,7,5,
      7,6,6,4,3,3,5,6, 4,2,2,6,5,4,6,5,
      2,5,5,7,4,4,6,6, 2,4,4,2,6,2,7,5,
      2,6,3,4,3,3,3,2, 2,2,2,3,4,4,4,5,
      2,6,5,7,4,4,4,6, 2,5,2,2,3,5,5,5,
      2,6,2,4,3,3,3,6, 2,2,2,4,4,4,4,5,
      2,5,5,7,4,4,4,6, 2,4,2,2,4,4,4,5,
      2,6,3,4,3,3,5,6, 2,2,2,3,4,4,6,5,
      2,5,5,7,6,4,6,6, 2,4,3,3,6,4,7,5,
      2,6,3,4,3,3,5,6, 2,2,2,3,4,4,6,5,
      2,5,5,7,5,4,6,6, 2,4,4,2,6,4,7,5>>

\* the opcodes dispatch implements
Implemented ==
    {8, 40, 72, 104, 24, 88, 120, 251, 194, 226, 42, 47, 105, 200, 91, 27, 170,
     133, 141, 157, 156, 169, 183, 162, 160, 172, 205, 224, 128, 208, 112, 32, 96}

\* operand values the program image supplies
ByteVals == {0, 1, 128}
WordVals == {0, 4736, 32768}
MaskVals == {1, 48}
AddrVals == {16}
IdxAddrVals == {16, 65535}
BankVals == {0, 126}
DirectVals == {16}
RelVals == {2, 254}
IllegalOps == {0, 255}
ResetVectors == {<<0, 128>>}

\* let op = self.fetchb()
Begin(opc) == fetchb(Cpu, opc)

\* what unchecked additions may do in this run
Wraps == IF build = "release" THEN {TRUE} ELSE BOOLEAN

ImmAcc == IF Bit(p, SMALL_ACC_FLAG) THEN ByteVals ELSE WordVals
ImmIndex == IF Bit(p, SMALL_INDEX_FLAG) THEN ByteVals ELSE WordVals

DispatchCyclesUnscaled(opc) == CYCLE_TABLE[opc + 1]

\* CYCLE_TABLE[op as usize] * 6, as u8
DispatchCycles(opc) == U8(CYCLE_TABLE[opc + 1] * 6)

\* the instruction ran to its end, or panicked: dispatch returns the cycle
\* count only in the first case
Finish(opc, c) ==
    /\ trap = "none"
    /\ steps < MaxSteps
    /\ \E cc \in {c} :
          /\ SetCpu(cc)
          /\ cycles' = IF Ok(cc) THEN DispatchCycles(opc) ELSE cycles
    /\ op' = opc
    /\ steps' = steps + 1
    /\ UNCHANGED <<stackVars, schedVars, amVars, devVars, onceVars>>

OpPhp == Finish(8, php(Begin(8)))
OpPlp == Finish(40, plp(Begin(40)))
OpPha == Finish(72, pha(Begin(72)))
OpPla == Finish(104, pla(Begin(104)))
OpClc == Finish(24, clc(Begin(24)))
OpCli == Finish(88, cli(Begin(88)))
OpSei == Finish(120, sei(Begin(120)))
OpXce == Finish(251, xce(Begin(251)))
OpRep ==
    \E v \in MaskVals :
        LET c == immediate8(Begin(194), v) IN Finish(194, rep(c, c.ret, TRUE))
OpSep ==
    \E v \in MaskVals :
        LET c == immediate8(Begin(226), v) IN Finish(226, sep(c, c.ret, TRUE))
OpRolA == Finish(42, rol_a(Begin(42)))
OpAndAbsLong ==
    \E w \in AddrVals, b \in BankVals :
        LET c == absolute_long(Begin(47), w, b) IN Finish(47, and(c, c.ret, TRUE))
OpAdcImm ==
    \E v \in ImmAcc :
        LET c == immediate_acc(Begin(105), v) IN Finish(105, adc(c, c.ret, TRUE))
OpIny == Finish(200, iny(Begin(200)))
OpTcd == Finish(91, tcd(Begin(91)))
OpTcs == Finish(27, tcs(Begin(27)))
OpTax == Finish(170, tax(Begin(170)))
OpStaDirect ==
    \E b \in DirectVals :
        LET c == direct(Begin(133), b) IN Finish(133, sta(c, c.ret, TRUE))
OpStaAbs ==
    \E w \in AddrVals :
        LET c == absolute(Begin(141), w) IN Finish(141, sta(c, c.ret, TRUE))
OpStaAbsX ==
    \E w \in IdxAddrVals, wraps \in Wraps :
        LET c == absolute_indexed_x(Begin(157), w)
        IN  Finish(157, sta(c, c.ret, wraps))
OpStzAbs ==
    \E w \in AddrVals :
        LET c == absolute(Begin(156), w) IN Finish(156, stz(c, c.ret, TRUE))
OpLdaImm ==
    \E v \in ImmAcc :
        LET c == immediate_acc(Begin(169), v) IN Finish(169, lda(c, c.ret, TRUE))
OpLdaIndLongIdx ==
    \E b \in DirectVals, wraps \in Wraps :
        LET c == indirect_long_idx(Begin(183), b)
        IN  Finish(183, lda(c, c.ret, wraps))
OpLdxImm ==
    \E v \in ImmIndex :
        LET c == immediate_index(Begin(162), v) IN Finish(162, ldx(c, c.ret, TRUE))
OpLdyImm ==
    \E v \in ImmIndex :
        LET c == immediate_index(Begin(160), v) IN Finish(160, ldy(c, c.ret, TRUE))
OpLdyAbs ==
    \E w \in AddrVals :
        LET c == absolute(Begin(172), w) IN Finish(172, ldy(c, c.ret, TRUE))
OpCmpAbs ==
    \E w \in AddrVals :
        LET c == absolute(Begin(205), w) IN Finish(205, cmp(c, c.ret, TRUE))
OpCpxImm ==
    \E v \in ImmIndex :
        LET c == immediate_index(Begin(224), v) IN Finish(224, cpx(c, c.ret, TRUE))
OpBra ==
    \E b \in RelVals :
        LET c == rel(Begin(128), b) IN Finish(128, bra(c, c.ret, TRUE))
OpBne ==
    \E b \in RelVals :
        LET c == rel(Begin(208), b) IN Finish(208, bne(c, c.ret, TRUE))
OpBvs ==
    \E b \in RelVals :
        LET c == rel(Begin(112), b) IN Finish(112, bvs(c, c.ret, TRUE))
OpJsr ==
    \E w \in AddrVals :
        LET c == absolute(Begin(32), w) IN Finish(32, jsr(c, c.ret, TRUE))
OpRts == Finish(96, rts(Begin(96)))
OpIll == \E o \in IllegalOps : Finish(o, ill(Begin(o)))

Init ==
    /\ \E v \in ResetVectors : InitCpu(ResetCpu(v[1], v[2]))
    /\ InitDisp
    /\ InitStk
    /\ InitSched
    /\ InitAm
    /\ InitDev
    /\ InitOnce

Next ==
    \/ OpPhp \/ OpPlp \/ OpPha \/ OpPla
    \/ OpClc \/ OpCli \/ OpSei \/ OpXce \/ OpRep \/ OpSep
    \/ OpRolA \/ OpAndAbsLong \/ OpAdcImm \/ OpIny
    \/ OpTcd \/ OpTcs \/ OpTax
    \/ OpStaDirect \/ OpStaAbs \/ OpStaAbsX \/ OpStzAbs
    \/ OpLdaImm \/ OpLdaIndLongIdx \/ OpLdxImm \/ OpLdyImm \/ OpLdyAbs
    \/ OpCmpAbs \/ OpCpxImm \/ OpBra \/ OpBne \/ OpBvs \/ OpJsr \/ OpRts
    \/ OpIll

Spec == Init /\ [][Next]_vars

\* the loads and stores of the instruction executed last, without its fetches
DataBus == SelectSeq(bus, LAMBDA e : e.kind # "fetch")

Flag(f) == Bit(p, f)

\* C1: in every state reachable from reset, emulation mode implies that the
\* high byte of S is 0x01.
C1_EmulationStackPage == emulation => Hi(s) = 1

\* C2: after XCE has forced emulation mode (carry was set), the high byte of
\* S is 0x01, whatever S and the mode were before.
C2_ForcedEmulationClampsS == (op = 251 /\ trap = "none" /\ emulation) => Hi(s) = 1

\* C3: in every reachable state in emulation mode the 8-bit-accumulator and
\* 8-bit-index flags are set.
C3_EmulationIsEightBit ==
    emulation => (Flag(SMALL_ACC_FLAG) /\ Flag(SMALL_INDEX_FLAG))

\* the register an opcode that affects N and Z leaves its result in, at the
\* width the opcode works at
NZResult ==
    CASE op \in {169, 183, 47, 105, 104, 42} ->
            IF Flag(SMALL_ACC_FLAG) THEN Lo(a) ELSE a
      [] op \in {162, 170} -> IF Flag(SMALL_INDEX_FLAG) THEN Lo(x) ELSE x
      [] op \in {160, 172, 200} -> IF Flag(SMALL_INDEX_FLAG) THEN Lo(y) ELSE y
      [] OTHER -> d

NZWide ==
    CASE op \in {169, 183, 47, 105, 104, 42} -> ~Flag(SMALL_ACC_FLAG)
      [] op \in {162, 170, 160, 172, 200} -> ~Flag(SMALL_INDEX_FLAG)
      [] OTHER -> TRUE

\* C4: after LDA, LDX, LDY, AND, ADC, PLA, TAX, INY, ROL A or TCD the zero
\* flag is set iff the result at the opcode's width is 0 and the negative
\* flag is set iff the result's sign bit is set.
C4_NZFlags ==
    (op \in {169, 183, 162, 160, 172, 47, 105, 104, 170, 200, 42, 91}
     /\ trap = "none") =>
        /\ Flag(ZERO_FLAG) <=> (NZResult = 0)
        /\ Flag(NEG_FLAG) <=> Bit(NZResult, IF NZWide THEN 32768 ELSE 128)

\* C7 as claimed: RTS pops the program bank first and the two bytes of the
\* return address after it.
C7_RtsBankFirst ==
    (op = 96 /\ trap = "none") =>
        /\ Len(DataBus) = 3
        /\ pbr = DataBus[1].val
        /\ pc = DataBus[3].val * 256 + DataBus[2].val

\* C7 as amended: RTS pops three bytes from ascending stack addresses, the
\* low byte of the return address first, its high byte second and the
\* program bank last, and sets PC and PBR from them.
C7_RtsAddressFirst ==
    (op = 96 /\ trap = "none") =>
        /\ Len(DataBus) = 3
        /\ \A i \in 1..3 : DataBus[i].kind = "load" /\ DataBus[i].bank = 0
        /\ DataBus[3].addr = s
        /\ pc = DataBus[2].val * 256 + DataBus[1].val
        /\ pbr = DataBus[3].val

\* RTS has returned to the instruction after a JSR fetched at 00:8000
C7_Witness ==
    /\ op = 96 /\ trap = "none" /\ steps = 2
    /\ pc = 32771 /\ pbr = 0 /\ s = 256
    /\ DataBus[1].val = 3 /\ DataBus[2].val = 128 /\ DataBus[3].val = 0

(***************************************************************************)
(* SpecStack: pushb / pushw / popb / popw applied to a CPU whose stack     *)
(* pointer and mode are drawn from StackStarts.  Emulation mode with S =   *)
(* 0x0000 is a state the CPU reaches (TCS with A = 0 right after reset).   *)
(* shadow records what was pushed and not yet popped; a pop is applied     *)
(* only as the match of the last push.                                     *)
(***************************************************************************)
StackStarts ==
    ({TRUE} \X {256, 257, 511, 0}) \cup ({FALSE} \X {0, 1, 65535, 511})
PushBytes == {18, 171}
PushWords == {4660, 43981, 255}

RECURSIVE ShadowBytes(_)
ShadowBytes(sh) ==
    IF sh = <<>> THEN 0
    ELSE (IF sh[1].kind = "w" THEN 2 ELSE 1) + ShadowBytes(Tail(sh))

Top(sh) == sh[Len(sh)]
Front(sh) == SubSeq(sh, 1, Len(sh) - 1)

InitStack ==
    /\ \E st \in StackStarts :
          InitCpu([ResetCpu(0, 128) EXCEPT !.emulation = st[1], !.s = st[2]])
    /\ InitDisp
    /\ InitStk
    /\ InitSched
    /\ InitAm
    /\ InitDev
    /\ InitOnce

StPushB ==
    /\ trap = "none"
    /\ ShadowBytes(shadow) + 1 <= MaxDepth
    /\ \E v \in PushBytes :
          LET c == Pushb(Cpu, v)
          IN  /\ SetCpu(c)
              /\ stk_op' = "pushb" /\ stk_arg' = v /\ stk_ret' = 0
              /\ shadow' = IF Ok(c) THEN Append(shadow, [kind |-> "b", val |-> v])
                           ELSE shadow
    /\ UNCHANGED <<s0, dispVars, schedVars, amVars, devVars, onceVars>>

StPushW ==
    /\ trap = "none"
    /\ ShadowBytes(shadow) + 2 <= MaxDepth
    /\ \E v \in PushWords :
          LET c == Pushw(Cpu, v)
          IN  /\ SetCpu(c)
              /\ stk_op' = "pushw" /\ stk_arg' = v /\ stk_ret' = 0
              /\ shadow' = IF Ok(c) THEN Append(shadow, [kind |-> "w", val |-> v])
                           ELSE shadow
    /\ UNCHANGED <<s0, dispVars, schedVars, amVars, devVars, onceVars>>

StPopB ==
    /\ trap = "none"
    /\ shadow # <<>>
    /\ Top(shadow).kind = "b"
    /\ LET c == Popb(Cpu)
       IN  /\ SetCpu(c)
           /\ stk_op' = "popb" /\ stk_arg' = Top(shadow).val /\ stk_ret' = c.ret
    /\ shadow' = Front(shadow)
    /\ UNCHANGED <<s0, dispVars, schedVars, amVars, devVars, onceVars>>

StPopW ==
    /\ trap = "none"
    /\ shadow # <<>>
    /\ Top(shadow).kind = "w"
    /\ LET c == Popw(Cpu)
       IN  /\ SetCpu(c)
           /\ stk_op' = "popw" /\ stk_arg' = Top(shadow).val /\ stk_ret' = c.ret
    /\ shadow' = Front(shadow)
    /\ UNCHANGED <<s0, dispVars, schedVars, amVars, devVars, onceVars>>

NextStack == StPushB \/ StPushW \/ StPopB \/ StPopW

SpecStack == InitStack /\ [][NextStack]_vars

\* the stack address below / above sp in the given mode
Lower(sp, emu) == IF emu THEN Hi(sp) * 256 + U8(Lo(sp) + 255) ELSE U16(sp + 65535)
Higher(sp, emu) == IF emu THEN Hi(sp) * 256 + U8(Lo(sp) + 1) ELSE U16(sp + 1)

\* C5: started in emulation mode with S in page 1, or in native mode with any
\* S, every pop returns the value of the push it matches (last in, first
\* out), no push or pop traps, and S is back at its starting value whenever
\* everything pushed has been popped.
C5_StackDiscipline ==
    (emulation => Hi(s0) = 1) =>
        /\ trap = "none"
        /\ (stk_op \in {"popb", "popw"} => stk_ret = stk_arg)
        /\ (shadow = <<>> => s = s0)

\* a word and then a byte were pushed across the wrap of the emulation-mode
\* stack page and both have been popped again
C5_Witness ==
    /\ emulation /\ s0 = 256 /\ s = 256
    /\ stk_op = "popw" /\ stk_ret = 43981 /\ shadow = <<>>
    /\ MemLoad(mem, 0, 510) = 18

\* C6: a word push is two stores, the high byte at the address S held
\* before the push, then the low byte at the next lower stack address; a
\* word pop is two loads, the low byte first and the high byte second.
C6_WordOrder ==
    [][/\ (stk_op' = "pushw" /\ trap' = "none") =>
             bus' = <<Access("store", 0, s, Hi(stk_arg')),
                      Access("store", 0, Lower(s, emulation), Lo(stk_arg'))>>
       /\ (stk_op' = "popw" /\ trap' = "none") =>
             /\ Len(bus') = 2
             /\ bus'[1].kind = "load" /\ bus'[2].kind = "load"
             /\ bus'[1].addr = Higher(s, emulation)
             /\ bus'[2].addr = Higher(Higher(s, emulation), emulation)
             /\ bus'[1].val = Lo(stk_ret') /\ bus'[2].val = Hi(stk_ret')
             /\ bus'[1].val = Lo(stk_arg') /\ bus'[2].val = Hi(stk_arg')]_vars

\* a word with distinct bytes was pushed and popped in native mode
C6_Witness ==
    /\ ~emulation /\ stk_op = "popw" /\ stk_ret = 4660
    /\ bus = <<Access("load", 0, s0 - 1, 52), Access("load", 0, s0, 18)>>

\* C8: a byte push or pop that completes in emulation mode changes only the
\* low byte of S, by one modulo 256, and the high byte is 0x01 before and
\* after; in native mode S as a whole changes by one modulo 65536.
C8_PointerStep ==
    [][/\ (stk_op' = "pushb" /\ trap' = "none") =>
             IF emulation
             THEN Hi(s') = 1 /\ Hi(s) = 1 /\ Lo(s') = (Lo(s) + 255) % 256
             ELSE s' = (s + 65535) % 65536
       /\ (stk_op' = "popb" /\ trap' = "none") =>
             IF emulation
             THEN Hi(s') = 1 /\ Hi(s) = 1 /\ Lo(s') = (Lo(s) + 1) % 256
             ELSE s' = (s + 1) % 65536]_vars

\* 0x0100 was pushed to 0x01FF and 0x01FF popped back to 0x0100
C8_Witness ==
    /\ emulation /\ stk_op = "popb" /\ s = 256 /\ s0 = 256
    /\ bus = <<Access("load", 0, 256, stk_ret)>>

(***************************************************************************)
(* Peripherals::store, src/snes.rs:90-133, for the registers the scheduler *)
(* reads: $4200 NMITIMEN, $420B MDMAEN, $420C HDMAEN.  dma is what do_dma  *)
(* returns for this store.                                                 *)
(***************************************************************************)
APU_DIVIDER == 21
NMITIMEN == 16896
MDMAEN == 16907
HDMAEN == 16908

Peri == [hdmaen |-> hdmaen, nmien |-> nmien, nmi |-> nmi, cy |-> cy, trap |-> trap]

PeriStoreUnchecked(q, addr, value, dma) ==
    IF q.trap # "none" THEN q
    ELSE CASE addr = NMITIMEN -> [q EXCEPT !.nmien = value]
           [] addr = MDMAEN -> [q EXCEPT !.cy = @ + dma]
           [] addr = HDMAEN -> [q EXCEPT !.hdmaen = value]
           [] OTHER -> q

PeriStore(q, addr, value, dma) ==
    IF q.trap # "none" THEN q
    ELSE CASE addr = NMITIMEN ->
                IF Bit(value, 32) THEN [q EXCEPT !.trap = "NYI: IRQ-H"]
                ELSE IF Bit(value, 16) THEN [q EXCEPT !.trap = "NYI: IRQ-V"]
                ELSE IF BitAnd(value, 78) # 0
                THEN [q EXCEPT !.trap = "Invalid value for NMIEN"]
                ELSE [q EXCEPT !.nmien = value]
           [] addr = MDMAEN -> [q EXCEPT !.cy = @ + dma]
           [] addr = HDMAEN ->
                IF value # 0 THEN [q EXCEPT !.trap = "NYI: HDMA"]
                ELSE [q EXCEPT !.hdmaen = value]
           [] OTHER -> q

RECURSIVE PeriStores(_, _)
PeriStores(q, stores) ==
    IF stores = <<>> THEN q
    ELSE PeriStores(PeriStore(q, stores[1].addr, stores[1].val, stores[1].dma),
                    Tail(stores))

nmi_enabled_any_bit(q) == q.nmien # 0

\* Peripherals::nmi_enabled
nmi_enabled(q) == Bit(q.nmien, 128)

(***************************************************************************)
(* The collaborators of the scheduler whose code is outside src/: the DMA  *)
(* engine (cycles per transfer), the audio processor (cycles per           *)
(* instruction) and the picture processor (one dot per update, vertical    *)
(* blank reported once per frame, on entering the frame's last dot).       *)
(***************************************************************************)
DmaCycles == {8}
ApuCycles == {2, 3}
PpuDotCycles == 4

PpuUpdate(dot) ==
    LET nd == (dot + 1) % FrameDots
    IN  [dot |-> nd, cy |-> PpuDotCycles, hblank |-> FALSE,
         vblank |-> nd = FrameDots - 1]

(***************************************************************************)
(* One CPU instruction as the scheduler sees it: its opcode (which fixes   *)
(* what dispatch returns) and the stores it makes to the registers above.  *)
(* STA (0x8D) stores A, as one byte or as two; STZ (0x9C) stores 0.        *)
(***************************************************************************)
St(addr, val, dma) == [addr |-> addr, val |-> val, dma |-> dma]

SchedOps == {24, 32, 141, 156}

StaStores ==
    {<<St(NMITIMEN, 128, 0)>>, <<St(NMITIMEN, 1, 0)>>, <<St(NMITIMEN, 48, 0)>>,
     <<St(HDMAEN, 1, 0)>>}
    \cup {<<St(MDMAEN, 1, n)>> : n \in DmaCycles}
    \cup {<<St(MDMAEN, 1, n), St(HDMAEN, 0, 0)>> : n \in DmaCycles}
    \cup {<<St(MDMAEN, 1, n), St(MDMAEN, 1, n)>> : n \in DmaCycles}

StzStores == {<<St(NMITIMEN, 0, 0)>>, <<St(HDMAEN, 0, 0)>>}

Stores(o) ==
    {<<>>} \cup (IF o = 141 THEN StaStores ELSE IF o = 156 THEN StzStores ELSE {})

RECURSIVE DmaSum(_)
DmaSum(stores) ==
    IF stores = <<>> THEN 0 ELSE stores[1].dma + DmaSum(Tail(stores))

(***************************************************************************)
(* Snes::run, src/snes.rs:149-221.                                         *)
(***************************************************************************)
KeepIoCy(q) == q

\* self.cpu.mem.cy = 0
ResetIoCy(q) == [q EXCEPT !.cy = 0]

CpuMasterCyIoOnly(o, q) == q.cy

\* let cpu_master_cy = self.cpu.dispatch() as i32 + self.cpu.mem.cy as i32
CpuMasterCy(o, q) == U8(CYCLE_TABLE[o + 1] * 6) + q.cy

SetPeri(q) ==
    /\ hdmaen' = q.hdmaen /\ nmien' = q.nmien /\ nmi' = q.nmi /\ cy' = q.cy
    /\ trap' = q.trap

\* `while apu_master_cy_debt > APU_DIVIDER`
ApuOwed(debt) == debt > APU_DIVIDER

\* `while ppu_master_cy_debt > 0`
PpuOwedFromZero(debt) == debt >= 0

PpuOwed(debt) == debt > 0

\* where the picture drain goes after a step: `break` when the step reported
\* vertical blank with NMI enabled, the loop head otherwise
PpuLoopStay(fire) == "drain"

PpuLoopNext(fire) == IF fire THEN "cpu" ELSE "drain"

TotalPlusOne(total, master_cycles) == total + 1

\* `total_apu_cy += apu_master_cy as u64`, `total_ppu_cy += cy as u64`
TotalPlus(total, master_cycles) == total + master_cycles

cpuRest == <<a, x, y, s, dbr, pbr, d, pc, p, emulation, mem, build, bus>>

SchedDispatch ==
    /\ sched_pc = "cpu" /\ trap = "none"
    /\ master_cy < CyLimit
    /\ \E o \in SchedOps :
         \E stores \in Stores(o) :
            LET q == PeriStores(ResetIoCy(Peri), stores)
                cpu_master_cy == CpuMasterCy(o, q)
            IN  /\ SetPeri(q)
                /\ sched_op' = o /\ dma_cy' = DmaSum(stores)
                /\ dispatched' = dispatched + 1
                /\ IF q.trap = "none"
                   THEN /\ master_cy' = master_cy + cpu_master_cy
                        /\ apu_master_cy_debt' = apu_master_cy_debt + cpu_master_cy
                        /\ ppu_master_cy_debt' = ppu_master_cy_debt + cpu_master_cy
                        /\ sched_pc' = "drain"
                   ELSE UNCHANGED <<master_cy, apu_master_cy_debt,
                                    ppu_master_cy_debt, sched_pc>>
    /\ broke' = FALSE
    /\ UNCHANGED <<total_apu_cy, total_ppu_cy, ppu_dot, nmi_calls, frame_nmis,
                   latches, vblanks, vblanks_enabled, left_debt>>
    /\ UNCHANGED <<cpuRest, dispVars, stackVars, amVars, devVars, onceVars>>

\* one turn of `while apu_master_cy_debt > APU_DIVIDER`
SchedApuStep ==
    /\ sched_pc = "drain" /\ trap = "none"
    /\ ApuOwed(apu_master_cy_debt)
    /\ \E n \in ApuCycles :
          /\ apu_master_cy_debt' = apu_master_cy_debt - n * APU_DIVIDER
          /\ total_apu_cy' = TotalPlus(total_apu_cy, n * APU_DIVIDER)
    /\ UNCHANGED <<sched_pc, master_cy, total_ppu_cy, ppu_master_cy_debt>>
    /\ UNCHANGED <<periVars, obsVars, cpuVars, dispVars, stackVars, amVars, devVars, onceVars>>

\* one turn of `while ppu_master_cy_debt > 0`
SchedPpuStep ==
    /\ sched_pc = "drain" /\ trap = "none"
    /\ ~ApuOwed(apu_master_cy_debt)
    /\ PpuOwed(ppu_master_cy_debt)
    /\ LET r == PpuUpdate(ppu_dot)
           fire == r.vblank /\ nmi_enabled(Peri)
       IN  /\ ppu_dot' = r.dot
           /\ ppu_master_cy_debt' = ppu_master_cy_debt - r.cy
           /\ total_ppu_cy' = TotalPlus(total_ppu_cy, r.cy)
           /\ latches' = IF r.vblank THEN latches + 1 ELSE latches
           /\ nmi' = IF fire THEN TRUE ELSE nmi
           /\ nmi_calls' = IF fire THEN nmi_calls + 1 ELSE nmi_calls
           /\ sched_pc' = PpuLoopNext(fire)
           /\ broke' = fire
           /\ left_debt' = IF fire THEN Append(left_debt, ppu_master_cy_debt - r.cy)
                           ELSE left_debt
           /\ frame_nmis' = (IF r.dot = 0 THEN 0 ELSE frame_nmis)
                            + (IF fire THEN 1 ELSE 0)
           /\ vblanks' = IF r.vblank THEN vblanks + 1 ELSE vblanks
           /\ vblanks_enabled' = IF r.vblank /\ Bit(nmien, 128)
                                 THEN vblanks_enabled + 1 ELSE vblanks_enabled
    /\ UNCHANGED <<master_cy, total_apu_cy, apu_master_cy_debt>>
    /\ UNCHANGED <<hdmaen, nmien, cy, sched_op, dma_cy, dispatched>>
    /\ UNCHANGED <<cpuVars, dispVars, stackVars, amVars, devVars, onceVars>>

\* both drain loops are over: back to the head of the outer loop
SchedIterEnd ==
    /\ sched_pc = "drain" /\ trap = "none"
    /\ ~ApuOwed(apu_master_cy_debt)
    /\ ~PpuOwed(ppu_master_cy_debt)
    /\ sched_pc' = "cpu"
    /\ UNCHANGED <<master_cy, total_apu_cy, total_ppu_cy, apu_master_cy_debt,
                   ppu_master_cy_debt>>
    /\ UNCHANGED <<periVars, obsVars, cpuVars, dispVars, stackVars, amVars, devVars, onceVars>>

\* `while master_cy < CY_LIMIT` fails: run returns
SchedExit ==
    /\ sched_pc = "cpu" /\ trap = "none"
    /\ ~(master_cy < CyLimit)
    /\ sched_pc' = "done"
    /\ UNCHANGED <<master_cy, total_apu_cy, total_ppu_cy, apu_master_cy_debt,
                   ppu_master_cy_debt>>
    /\ UNCHANGED <<periVars, obsVars, cpuVars, dispVars, stackVars, amVars, devVars, onceVars>>

InitRun ==
    /\ \E v \in ResetVectors : InitCpu(ResetCpu(v[1], v[2]))
    /\ InitDisp
    /\ InitStk
    /\ InitSched
    /\ InitAm
    /\ InitDev
    /\ InitOnce

NextSched ==
    SchedDispatch \/ SchedApuStep \/ SchedPpuStep \/ SchedIterEnd \/ SchedExit

SpecSched == InitRun /\ [][NextSched]_vars

\* C9: a step of the scheduler dispatches a CPU instruction exactly when it
\* leaves the head of the loop for the drain loops, and dispatches one; after
\* it the DMA accumulator holds the DMA cycles of that instruction alone, and
\* the master-cycle counter, the audio debt and the picture debt have all
\* grown by the instruction's cost (table entry * 6) plus those DMA cycles.
C9_OneInstructionPerIteration ==
    [][/\ (sched_pc = "cpu" /\ sched_pc' = "drain") <=> (dispatched' # dispatched /\ trap' = "none")
       /\ dispatched' \in {dispatched, dispatched + 1}
       /\ (dispatched' # dispatched /\ trap' = "none") =>
             LET cost == CYCLE_TABLE[sched_op' + 1] * 6 + dma_cy'
             IN  /\ cy' = dma_cy'
                 /\ master_cy' = master_cy + cost
                 /\ apu_master_cy_debt' = apu_master_cy_debt + cost
                 /\ ppu_master_cy_debt' = ppu_master_cy_debt + cost]_vars

\* a second instruction that started DMA has been dispatched
C9_Witness ==
    /\ sched_pc = "drain" /\ dispatched >= 2 /\ dma_cy = 16 /\ cy = 16
    /\ master_cy >= 2 * (24 + 8)

\* C10: trigger_nmi has been called once for every vertical blank reported
\* while the NMI-enable flag was set, and at most once since the current
\* frame began.
C10_OneNmiPerFrame ==
    /\ nmi_calls = vblanks_enabled
    /\ frame_nmis <= 1

\* the NMI of the first frame left the picture drain with positive debt, the
\* drain went on in later iterations, and the second frame's NMI followed
C10_Witness ==
    /\ Len(left_debt) = 2 /\ left_debt[1] > 0
    /\ nmi_calls = 2 /\ vblanks = 2 /\ frame_nmis = 1

\* C11: a picture step that reports vertical blank latches the input; with
\* the NMI-enable flag set it also sets the NMI-pending flag, calls
\* trigger_nmi once and leaves the picture drain, and no picture step follows
\* until the next instruction has been dispatched; with the flag clear
\* nothing is requested and the drain goes on, ending only when the picture
\* debt is no longer positive.
C11_VblankBreak ==
    [][/\ (vblanks' # vblanks) =>
            /\ latches' = latches + 1
            /\ IF nmi_enabled(Peri)
               THEN /\ nmi' /\ nmi_calls' = nmi_calls + 1
                    /\ sched_pc' = "cpu" /\ broke'
               ELSE /\ nmi' = nmi /\ nmi_calls' = nmi_calls
                    /\ sched_pc' = "drain" /\ ~broke'
       /\ (nmi_calls' # nmi_calls) => (vblanks' # vblanks)
       /\ (total_ppu_cy' # total_ppu_cy) => (~broke /\ sched_pc = "drain")
       /\ (sched_pc = "drain" /\ sched_pc' = "cpu" /\ ~broke') =>
             ppu_master_cy_debt' <= 0]_vars

\* one vertical blank passed with NMI disabled, the next one raised the NMI
\* and left the drain loop while picture debt was still positive
C11_Witness ==
    /\ sched_pc = "cpu" /\ broke /\ nmi /\ ppu_master_cy_debt > 0
    /\ vblanks = 2 /\ latches = 2 /\ nmi_calls = 1

(***************************************************************************)
(* Snes::run scheduled fairly: a loop that can take a turn takes it.       *)
(***************************************************************************)
SpecSchedFair == SpecSched /\ WF_vars(NextSched)

\* C12: the scheduler loop terminates.  Every dispatched instruction adds at
\* least 12 to the master-cycle counter, nothing else changes the counter,
\* no instruction is dispatched once the counter has reached the budget, and
\* run() is eventually over (it has returned, or a panic has aborted it).
C12_Terminates ==
    /\ [][/\ (dispatched' # dispatched /\ trap' = "none") =>
                (master_cy < CyLimit /\ master_cy' >= master_cy + 12)
          /\ (dispatched' = dispatched) => (master_cy' = master_cy)
          /\ (sched_pc' = "done") => (sched_pc = "cpu" /\ master_cy >= CyLimit)]_vars
    /\ <>(sched_pc = "done" \/ trap # "none")

\* run() has returned after the counter reached the budget
C12_Witness ==
    /\ sched_pc = "done" /\ trap = "none" /\ master_cy >= CyLimit
    /\ dispatched >= 3 /\ total_apu_cy > 0 /\ total_ppu_cy > 0

\* C13: an iteration ends with the audio debt at most APU_DIVIDER and, unless
\* the picture drain was left through the NMI break, the picture debt at
\* most 0; the audio processor is stepped only while its debt exceeds
\* APU_DIVIDER and the picture processor only while its debt is positive.
C13_DebtBounds ==
    [][/\ (sched_pc = "drain" /\ sched_pc' = "cpu") =>
            /\ apu_master_cy_debt' <= 21
            /\ broke' \/ ppu_master_cy_debt' <= 0
       /\ (total_apu_cy' # total_apu_cy) => apu_master_cy_debt > 21
       /\ (total_ppu_cy' # total_ppu_cy) => ppu_master_cy_debt > 0]_vars

\* an iteration has ended normally with both processors run ahead of the CPU
C13_Witness ==
    /\ sched_pc = "cpu" /\ ~broke /\ dispatched >= 2
    /\ apu_master_cy_debt < 0 /\ ppu_master_cy_debt = 0
    /\ total_apu_cy > 0 /\ total_ppu_cy > 0

(***************************************************************************)
(* SpecAm: the accessors of AddressingMode (address, loadb, loadw, storeb, *)
(* storew) applied to one mode on a CPU whose registers and memory are     *)
(* drawn from small sets, by either implementation: the one in cpu.rs,     *)
(* which dispatch uses, or the one in cpu/addressing.rs.                   *)
(***************************************************************************)
AmImpls == {"cpu.rs", "addressing.rs"}

AmBytes == {16, 254}
AmWords == {16, 65534, 65535}
AmBanks == {126, 255}
AmX == {0, 1}
AmY == {0, 1}
AmD == {0, 65519}
AmDbr == {0}
StoreBytes == {171}
StoreWords == {4660}

\* the variants of enum AddressingMode
AmModes(impl) ==
    {AM(mode, v) : mode \in {"Immediate", "Absolute", "AbsIndexedX"}, v \in AmWords}
    \cup {AM(mode, v) : mode \in {"Immediate8", "Direct", "Rel", "IndirectLongIdx"},
                       v \in AmBytes}
    \cup {AML(b, v) : b \in AmBanks, v \in AmWords}
    \cup (IF impl = "addressing.rs"
          THEN {[mode |-> "AbsLongIndexedX", bank |-> b, val |-> v] :
                    b \in AmBanks, v \in AmWords}
               \cup {AM("DirectIndexedX", v) : v \in AmBytes}
          ELSE {})

\* memory with a 3-byte pointer (low, high, bank) at 00:0010
Pointer(lo, hi, bank) == (Key(0, 16) :> lo) @@ (Key(0, 17) :> hi) @@ (Key(0, 18) :> bank)

AmImages ==
    {Pointer(255, 255, 126), Pointer(255, 255, 255), Pointer(16, 0, 0)}

InitAmCpu ==
    \E xx \in AmX, yy \in AmY, dd \in AmD, bb \in AmDbr, m \in AmImages :
        InitCpu([ResetCpu(0, 128) EXCEPT !.x = xx, !.y = yy, !.d = dd,
                                         !.dbr = bb, !.mem = m])

InitAmSpec ==
    /\ InitAmCpu
    /\ InitDisp
    /\ InitStk
    /\ InitSched
    /\ InitDev
    /\ InitOnce
    /\ am_impl \in AmImpls /\ am_mode \in AmModes(am_impl)
    /\ am_op = "none" /\ am_val = 0 /\ am_ret = 0 /\ am_ea = <<>>
    /\ am_prev = [op |-> "none", val |-> 0, ea |-> <<>>]

AmAddressOf(c, w) ==
    IF am_impl = "cpu.rs" THEN address(c, am_mode, w) ELSE am_address(c, am_mode, w)
AmLoadb(c, w) ==
    IF am_impl = "cpu.rs" THEN loadb(c, am_mode, w) ELSE am_loadb(c, am_mode, w)
AmLoadw(c, w) ==
    IF am_impl = "cpu.rs" THEN loadw(c, am_mode, w) ELSE am_loadw(c, am_mode, w)
AmStoreb(c, v, w) ==
    IF am_impl = "cpu.rs" THEN storeb(c, am_mode, v, w) ELSE am_storeb(c, am_mode, v, w)
AmStorew(c, v, w) ==
    IF am_impl = "cpu.rs" THEN storew(c, am_mode, v, w) ELSE am_storew(c, am_mode, v, w)

\* the effective address the mode resolves to before the accessor acts
AmEa(w) ==
    LET r == AmAddressOf(Cpu, w) IN IF Ok(r) THEN r.ret ELSE <<>>

AmApply(name, value, c, w) ==
    /\ SetCpu(c)
    /\ am_prev' = [op |-> am_op, val |-> am_val, ea |-> am_ea]
    /\ am_op' = name /\ am_val' = value
    /\ am_ret' = IF Ok(c) /\ name \in {"loadb", "loadw"} THEN c.ret ELSE 0
    /\ am_ea' = AmEa(w)
    /\ UNCHANGED <<am_mode, am_impl, dispVars, stackVars, schedVars, devVars, onceVars>>

AmDoAddress ==
    /\ trap = "none"
    /\ \E w \in Wraps : AmApply("address", 0, AmAddressOf(Cpu, w), w)

AmDoLoadb ==
    /\ trap = "none"
    /\ \E w \in Wraps : AmApply("loadb", 0, AmLoadb(Cpu, w), w)

AmDoLoadw ==
    /\ trap = "none"
    /\ \E w \in Wraps : AmApply("loadw", 0, AmLoadw(Cpu, w), w)

AmDoStoreb ==
    /\ trap = "none"
    /\ \E w \in Wraps, v \in StoreBytes : AmApply("storeb", v, AmStoreb(Cpu, v, w), w)

AmDoStorew ==
    /\ trap = "none"
    /\ \E w \in Wraps, v \in StoreWords : AmApply("storew", v, AmStorew(Cpu, v, w), w)

NextAm == AmDoAddress \/ AmDoLoadb \/ AmDoLoadw \/ AmDoStoreb \/ AmDoStorew

SpecAm == InitAmSpec /\ [][NextAm]_vars

\* C14: a byte stored with storeb and loaded with loadb through the same
\* effective address is the byte stored, and a word stored with storew and
\* loaded with loadw through the same effective address is the word stored.
C14_RoundTrip ==
    (trap = "none" /\ am_ea # <<>> /\ am_prev.ea = am_ea) =>
        /\ (am_prev.op = "storeb" /\ am_op = "loadb") => am_ret = am_prev.val
        /\ (am_prev.op = "storew" /\ am_op = "loadw") => am_ret = am_prev.val

\* what address() reads from the bus before the effective address is known:
\* the three pointer bytes of IndirectLongIdx in cpu/addressing.rs
PointerReads ==
    IF am_impl = "addressing.rs" /\ am_mode.mode = "IndirectLongIdx" THEN 3 ELSE 0

WordAccessOnBankEnd ==
    am_op \in {"loadw", "storew"} /\ am_ea # <<>> /\ am_ea[2] = 65535

\* C15 as claimed: a word access whose effective offset is 0xFFFF traps and
\* makes no bus access at all.
C15_BankEndNoBusAccess ==
    WordAccessOnBankEnd => (trap # "none" /\ bus = <<>>)

\* C15 as amended: a word access whose effective offset is 0xFFFF traps
\* before any byte of the word is loaded or stored: the bus has seen no
\* store, and no load but the pointer bytes that resolving the address took.
C15_BankEndTraps ==
    WordAccessOnBankEnd =>
        /\ trap \in {"loadw on bank boundary", "storew on bank boundary"}
        /\ Len(bus) = PointerReads
        /\ \A i \in 1..Len(bus) : bus[i].kind = "load" /\ bus[i].bank = 0

\* storew through [d],y stopped at 7E:FFFF after the three pointer reads
C15_Witness ==
    /\ WordAccessOnBankEnd /\ trap # "none" /\ am_op = "storew"
    /\ am_mode.mode = "IndirectLongIdx" /\ am_ea = <<126, 65535>> /\ Len(bus) = 3

\* C16: on an immediate mode address(), storeb(), storew(), loadb() of a
\* 16-bit immediate and loadw() of an 8-bit immediate trap, loadb() of an
\* 8-bit immediate and loadw() of a 16-bit immediate return the literal, and
\* none of them touches the bus.
C16_ImmediateAccessors ==
    (IsImmediate(am_mode) /\ am_op # "none") =>
        /\ bus = <<>>
        /\ IF \/ (am_op = "loadb" /\ am_mode.mode = "Immediate8")
              \/ (am_op = "loadw" /\ am_mode.mode = "Immediate")
           THEN trap = "none" /\ am_ret = am_mode.val
           ELSE trap # "none"

\* loadw returned a 16-bit literal after loadb on it would have trapped
C16_Witness ==
    /\ am_mode = AM("Immediate", 65534) /\ am_op = "loadw" /\ am_ret = 65534
    /\ am_prev.op = "loadw" /\ trap = "none" /\ am_impl = "addressing.rs"

\* the 24-bit sum the [d],y mode stands for: the little-endian pointer read
\* from bank 0 at D + operand, plus Y
LongIdxSum ==
    LET ptr == U16(d + am_mode.val)
    IN  MemLoad(mem, 0, ptr) + 256 * MemLoad(mem, 0, U16(ptr + 1))
        + 65536 * MemLoad(mem, 0, U16(ptr + 2)) + y

\* C17: address() on IndirectLongIdx reads the pointer bytes low, high, bank
\* from bank 0 at D + operand and returns pointer + Y as (bank, offset), the
\* carry reaching the bank; it traps when the sum needs more than 24 bits.
C17_IndirectLongIdx ==
    (am_mode.mode = "IndirectLongIdx" /\ am_op = "address") =>
        IF LongIdxSum >= 16777216 THEN trap # "none"
        ELSE trap = "none" =>
                /\ am_ea = <<LongIdxSum \div 65536, LongIdxSum % 65536>>
                /\ Len(bus) = 3
                /\ \A i \in 1..3 :
                      /\ bus[i].kind = "load" /\ bus[i].bank = 0
                      /\ bus[i].addr = U16(d + am_mode.val + i - 1)

\* C18: dispatch of an implemented opcode returns CYCLE_TABLE[opcode] * 6,
\* whatever the operands, registers and flags and whether or not a branch
\* was taken; CLC leaves the carry clear and returns 12; every table entry
\* times 6 fits in 8 bits.
C18_DispatchCycles ==
    /\ \A o \in 0..255 : CYCLE_TABLE[o + 1] * 6 < 256
    /\ (op \in Implemented /\ trap = "none") => cycles = CYCLE_TABLE[op + 1] * 6
    /\ (op = 24 /\ trap = "none") => (~Flag(CARRY_FLAG) /\ cycles = 12)

\* CLC ran in native mode right after XCE, which had set the carry
C18_Witness ==
    /\ op = 24 /\ trap = "none" /\ steps = 2 /\ ~emulation
    /\ ~Flag(CARRY_FLAG) /\ cycles = 12

\* C19: an opcode outside the implemented set panics, dispatch returns no
\* cycle count for it, and nothing executes once a panic has happened.
C19_IllegalOpcodeFatal ==
    [][/\ trap = "none"
       /\ (op' \notin Implemented) =>
             (trap' = "illegal CPU opcode" /\ cycles' = cycles)]_vars

\* an illegal opcode was fetched after a legal instruction
C19_Witness ==
    /\ op \in IllegalOps /\ trap = "illegal CPU opcode" /\ steps = 2 /\ cycles > 0

\* the bits of the status register
StatusBits == {1, 2, 4, 8, 16, 32, 64, 128}

\* C20: REP and SEP panic in emulation mode and leave P as it was; in native
\* mode REP clears and SEP sets exactly the bits of P that are 1 in the
\* operand byte.
C20_RepSep ==
    [][(op' \in {194, 226} /\ steps' # steps) =>
          IF emulation
          THEN trap' # "none" /\ p' = p
          ELSE /\ trap' = "none"
               /\ \A b \in StatusBits :
                     Bit(p', b) = IF Bit(bus'[2].val, b) THEN op' = 226
                                  ELSE Bit(p, b)]_vars

\* REP #$01 in native mode cleared the carry that XCE had set
C20_Witness ==
    /\ op = 194 /\ trap = "none" /\ steps = 2 /\ ~emulation
    /\ bus[2].val = 1 /\ ~Flag(CARRY_FLAG)

(***************************************************************************)
(* SpecReset: Cpu::new on a memory whose RESET vector bytes are drawn from *)
(* VectorBytes, followed by the flag and mode opcodes a program starts     *)
(* with.                                                                   *)
(***************************************************************************)
VectorBytes == {0, 52, 128, 255}

Vector(lo, hi) == (Key(0, RESET_VEC8) :> lo) @@ (Key(0, RESET_VEC8 + 1) :> hi)

InitReset ==
    /\ \E lo \in VectorBytes, hi \in VectorBytes : InitCpu(new(Vector(lo, hi)))
    /\ InitDisp
    /\ InitStk
    /\ InitSched
    /\ InitAm
    /\ InitDev
    /\ InitOnce

NextReset == OpSei \/ OpCli \/ OpClc \/ OpXce

SpecReset == InitReset /\ [][NextReset]_vars

\* C21: right after construction A = X = Y = 0, D = DBR = PBR = 0, S is in
\* page 1, the 8-bit-accumulator, 8-bit-index and IRQ-disable flags are set,
\* emulation mode is on, and PC is the little-endian word at 00:FFFC/FFFD
\* (bytes 0x00, 0x80 give 0x8000).
C21_ResetState ==
    (steps = 0) =>
        /\ a = 0 /\ x = 0 /\ y = 0 /\ d = 0 /\ dbr = 0 /\ pbr = 0
        /\ Hi(s) = 1
        /\ Flag(SMALL_ACC_FLAG) /\ Flag(SMALL_INDEX_FLAG) /\ Flag(IRQ_FLAG)
        /\ emulation
        /\ pc = MemLoad(mem, 0, 65532) + 256 * MemLoad(mem, 0, 65533)
        /\ (MemLoad(mem, 0, 65532) = 0 /\ MemLoad(mem, 0, 65533) = 128) => pc = 32768

\* the CPU was constructed over a RESET vector of 0x00, 0x80
C21_Witness ==
    /\ steps = 0 /\ op = -1 /\ pc = 32768 /\ pbr = 0
    /\ MemLoad(mem, 0, 65532) = 0 /\ MemLoad(mem, 0, 65533) = 128

(***************************************************************************)
(* SpecWidth: the width-sensitive opcodes dispatched on a CPU in native    *)
(* mode whose registers and width flags are drawn from small sets (a       *)
(* program gets there with XCE, REP / SEP and 16-bit loads).               *)
(***************************************************************************)
WidthAcc == {4863, 128}
WidthIndex == {4863}
WidthFlags == {0, 16, 32, 48}

InitWidth ==
    /\ \E aa \in WidthAcc, xx \in WidthIndex, yy \in WidthIndex, ff \in WidthFlags :
          InitCpu([ResetCpu(0, 128) EXCEPT !.a = aa, !.x = xx, !.y = yy,
                                           !.p = IRQ_FLAG + ff, !.s = 511,
                                           !.emulation = FALSE])
    /\ InitDisp
    /\ InitStk
    /\ InitSched
    /\ InitAm
    /\ InitDev
    /\ InitOnce

NextWidth ==
    \/ OpLdaImm \/ OpLdaIndLongIdx \/ OpAndAbsLong \/ OpAdcImm \/ OpRolA
    \/ OpPha \/ OpPla \/ OpLdxImm \/ OpLdyImm \/ OpLdyAbs \/ OpTax \/ OpIny
    \/ OpStaDirect \/ OpStaAbs \/ OpStaAbsX \/ OpStzAbs

SpecWidth == InitWidth /\ [][NextWidth]_vars

\* C22: with the 8-bit-accumulator flag set LDA, AND, ADC, ROL A and PLA
\* leave the high byte of A as it was, and with the 8-bit-index flag set
\* LDX and TAX leave the high byte of X, LDY and INY the high byte of Y.
C22_HighBytePreserved ==
    [][(steps' # steps /\ trap' = "none") =>
          /\ (op' \in {169, 183, 47, 105, 42, 104} /\ Flag(SMALL_ACC_FLAG)) =>
                Hi(a') = Hi(a)
          /\ (op' \in {162, 170} /\ Flag(SMALL_INDEX_FLAG)) => Hi(x') = Hi(x)
          /\ (op' \in {160, 172, 200} /\ Flag(SMALL_INDEX_FLAG)) =>
                Hi(y') = Hi(y)]_vars

\* an 8-bit LDA #$01 replaced the low byte of A = 0x12FF
C22_Witness ==
    /\ op = 169 /\ steps = 1 /\ trap = "none" /\ Flag(SMALL_ACC_FLAG)
    /\ a = 4609 /\ bus[2].val = 1

\* the stores of the instruction executed last
BusStores == SelectSeq(bus, LAMBDA e : e.kind = "store")

\* C23: STA and STZ write one byte at the effective address when the
\* 8-bit-accumulator flag is set, and otherwise a word, its low byte at the
\* effective address and its high byte at the address after it (STZ writes
\* zeros, STA the accumulator).
C23_StoreWidth ==
    (op \in {133, 141, 157, 156} /\ steps > 0 /\ trap = "none") =>
        LET v == IF op = 156 THEN 0 ELSE a
        IN  IF Flag(SMALL_ACC_FLAG)
            THEN Len(BusStores) = 1 /\ BusStores[1].val = Lo(v)
            ELSE /\ Len(BusStores) = 2
                 /\ BusStores[1].val = Lo(v) /\ BusStores[2].val = Hi(v)
                 /\ BusStores[2].bank = BusStores[1].bank
                 /\ BusStores[2].addr = BusStores[1].addr + 1

\* values offered to the two guarded registers
RegisterValues == {0, 1, 2, 4, 8, 16, 32, 48, 64, 128, 129, 255}

\* C25: the stored NMITIMEN never has a bit other than 0x80 and 0x01 and the
\* stored HDMAEN is always 0; a store to $4200 with an IRQ-enable or unused
\* bit, and a non-zero store to $420C, trap and leave the register at its
\* previous value.
C25_RegisterGuards ==
    /\ [](BitAnd(nmien, 126) = 0 /\ hdmaen = 0)
    /\ [](trap = "none" =>
            \A v \in RegisterValues :
               LET q == PeriStore(Peri, NMITIMEN, v, 0)
                   h == PeriStore(Peri, HDMAEN, v, 0)
               IN  /\ BitAnd(v, 126) # 0 => (q.trap # "none" /\ q.nmien = nmien)
                   /\ BitAnd(v, 126) = 0 => (q.trap = "none" /\ q.nmien = v)
                   /\ v # 0 => (h.trap # "none" /\ h.hdmaen = hdmaen)
                   /\ v = 0 => (h.trap = "none" /\ h.hdmaen = 0))
    /\ [][(trap = "none" /\ trap' # "none") =>
            (nmien' = nmien /\ hdmaen' = hdmaen)]_vars

\* a store of 0x30 to $4200 trapped while NMITIMEN held 0x80
C25_Witness == trap = "NYI: IRQ-H" /\ nmien = 128 /\ sched_op = 141

(***************************************************************************)
(* SpecWram: loads and stores served by Peripherals from working RAM       *)
(* (src/snes.rs:62-133, the arms that index `wram`).                       *)
(***************************************************************************)
\* banks whose first 8 KB are served from working RAM
IsSystemBank(bank) == bank \in 0..63 \/ bank \in 128..191

\* an access that Peripherals::load / store serve from `wram`
IsWram(bank, addr) ==
    \/ IsSystemBank(bank) /\ addr \in 0..8191
    \/ bank \in {126, 127}

WramIndexFlat(bank, addr) == (bank % 2) * 65536 + (bank \div 128) * 8192 + addr

\* the index into `wram` of such an access
WramIndex(bank, addr) ==
    IF IsSystemBank(bank) THEN addr ELSE (bank - 126) * 65536 + addr

WramGet(w, i) == IF i \in DOMAIN w THEN w[i] ELSE 0

peri_load(w, bank, addr) == WramGet(w, WramIndex(bank, addr))

peri_store(w, bank, addr, value) == (WramIndex(bank, addr) :> value) @@ w

WramBanks == {0, 63, 128, 191, 126, 127}
WramAddrs == {0, 8191, 8192}
WramValues == {90, 165}
SharedBanks == {b \in WramBanks : IsSystemBank(b)} \cup {126}
SharedAddrs == {n \in WramAddrs : n < 8192}

WramStore ==
    \E bank \in WramBanks, addr \in WramAddrs, value \in WramValues :
        /\ IsWram(bank, addr)
        /\ wram' = peri_store(wram, bank, addr, value)
        /\ peri_op' = [kind |-> "store", bank |-> bank, addr |-> addr,
                       val |-> value]
        /\ peri_ret' = 0
        /\ UNCHANGED <<cpuVars, dispVars, stackVars, schedVars, amVars>>
        /\ UNCHANGED <<ppu, ppu_op, ppu_ret, ppu_pc, visible_sprites, scanned,
                       built_for, onceVars>>

WramLoad ==
    \E bank \in WramBanks, addr \in WramAddrs :
        /\ IsWram(bank, addr)
        /\ peri_ret' = peri_load(wram, bank, addr)
        /\ peri_op' = [kind |-> "load", bank |-> bank, addr |-> addr, val |-> 0]
        /\ UNCHANGED wram
        /\ UNCHANGED <<cpuVars, dispVars, stackVars, schedVars, amVars>>
        /\ UNCHANGED <<ppu, ppu_op, ppu_ret, ppu_pc, visible_sprites, scanned,
                       built_for, onceVars>>

InitWramSpec ==
    /\ InitCpu(ResetCpu(0, 128))
    /\ InitDisp
    /\ InitStk
    /\ InitSched
    /\ InitAm
    /\ InitDev
    /\ InitOnce

NextWram == WramStore \/ WramLoad

SpecWram == InitWramSpec /\ [][NextWram]_vars

\* C24: a byte stored at an offset below 0x2000 through a bank of
\* 0x00-0x3F, 0x80-0xBF or through bank 0x7E is what a load of that offset
\* returns through every one of those banks, and every load returns what
\* the shared store holds.
C24_SharedWram ==
    /\ [](\A b1 \in SharedBanks, b2 \in SharedBanks, n \in SharedAddrs :
            peri_load(wram, b1, n) = peri_load(wram, b2, n))
    /\ [][(peri_op'.kind = "store" /\ peri_op'.bank \in SharedBanks
             /\ peri_op'.addr \in SharedAddrs) =>
            \A b \in SharedBanks :
               peri_load(wram', b, peri_op'.addr) = peri_op'.val]_vars
    /\ [][(peri_op'.kind = "load" /\ peri_op'.bank \in SharedBanks
             /\ peri_op'.addr \in SharedAddrs) =>
            \A b \in SharedBanks :
               peri_ret' = peri_load(wram, b, peri_op'.addr)]_vars

\* 0xA5 stored through bank 0x80 at offset 0x1FFF was loaded through 0x7E
C24_Witness ==
    /\ peri_op = [kind |-> "load", bank |-> 126, addr |-> 8191, val |-> 0]
    /\ peri_ret = 165
    /\ wram = (8191 :> 165)

(***************************************************************************)
(* The picture processor's renderer, src/ppu/rendering.rs.  A Ppu is a     *)
(* record of the registers and memories the renderer reads, its position   *)
(* (x, scanline) and the per-scanline list of visible sprite tiles.        *)
(* Unchecked u16 / u8 arithmetic that overflows and debug_assert!s that    *)
(* fail panic in a debug build and pass (wrapping) in a release build:     *)
(* every operator computes the wrapped value and reports in `ovf` whether  *)
(* a debug build would have panicked on the way.                           *)
(***************************************************************************)
MaxVisibleSprites == 32
MaxVisibleTiles == 34
OamSprites == 128
DebugRegion == 64

PpuByte(m, i) == IF i \in DOMAIN m THEN m[i] ELSE 0
Shr(v, n) == v \div (2 ^ n)
Reverse(q) == [i \in 1..Len(q) |-> q[Len(q) + 1 - i]]

\* Ppu::bg_mode
bg_mode(pp) == pp.bgmode % 8

\* Ppu::obj_size: the side of a (square) sprite; it panics when the three
\* OBSEL bits it reads are 6 or 7
obj_size_valid(pp) == pp.obsel % 8 < 6
obj_size(pp, alt) ==
    LET sizes == <<<<8, 16>>, <<8, 32>>, <<8, 64>>, <<16, 32>>, <<16, 64>>,
                   <<32, 64>>>>
    IN  sizes[(pp.obsel % 8) + 1][IF alt THEN 2 ELSE 1]

tilemap_entry_flips_swapped(pp, word_address) ==
    LET lo == PpuByte(pp.vram, word_address * 2)
        hi == PpuByte(pp.vram, word_address * 2 + 1)
    IN  [vflip |-> Bit(hi, 64), hflip |-> Bit(hi, 128),
         priority |-> (hi \div 32) % 2, palette |-> (hi \div 4) % 8,
         tile_number |-> (hi % 4) * 256 + lo]

\* Ppu::tilemap_entry
tilemap_entry(pp, word_address) ==
    LET lo == PpuByte(pp.vram, word_address * 2)
        hi == PpuByte(pp.vram, word_address * 2 + 1)
    IN  [vflip |-> Bit(hi, 128), hflip |-> Bit(hi, 64),
         priority |-> (hi \div 32) % 2, palette |-> (hi \div 4) % 8,
         tile_number |-> (hi % 4) * 256 + lo]

\* Ppu::bg_settings (the mosaic size it also collects is read by nothing)
bg_settings(pp, bg) ==
    LET bgsc == pp.bgsc[bg]
        chr == IF bg = 1 THEN pp.bg12nba % 16
               ELSE IF bg = 2 THEN pp.bg12nba \div 16
               ELSE IF bg = 3 THEN pp.bg34nba % 16
               ELSE pp.bg34nba \div 16
    IN  [tilemap_addr |-> U16((bgsc \div 4) * 1024),
         tilemap_mirror_h |-> bgsc % 2 = 0,
         tilemap_mirror_v |-> (bgsc \div 2) % 2 = 0,
         tile_size |-> IF bg_mode(pp) \in {5, 6} THEN 16
                       ELSE IF bg_mode(pp) = 7 THEN 8
                       ELSE IF ~Bit(pp.bgmode, 2 ^ (bg + 3)) THEN 8 ELSE 16,
         chr_addr |-> U16(chr * 4096),
         hscroll |-> pp.hofs[bg],
         vscroll |-> pp.vofs[bg]]

\* Ppu::bg_enabled
bg_enabled(pp, bg) == Bit(pp.tm, 2 ^ (bg - 1))

\* Ppu::get_oam_entry
get_oam_entry(pp, index) ==
    LET start == index * 4
        x0 == PpuByte(pp.oam, start)
        byte4 == PpuByte(pp.oam, start + 3)
        byte == PpuByte(pp.oam, 512 + (index \div 4))
        info == Shr(byte, index % 4) % 4
    IN  [tile |-> PpuByte(pp.oam, start + 2),
         name_table |-> byte4 % 2,
         x |-> IF info \div 2 = 1 THEN BitOr(65520, x0) - 65536 ELSE x0,
         y |-> PpuByte(pp.oam, start + 1),
         priority |-> (byte4 \div 16) % 4,
         palette |-> (byte4 \div 2) % 8,
         hflip |-> Bit(byte4, 64),
         vflip |-> Bit(byte4, 128),
         size_toggle |-> info % 2 = 1]

\* Ppu::lookup_color: the Rgb of a color-RAM entry
lookup_color(pp, color) ==
    LET lo == PpuByte(pp.cgram, color * 2)
        hi == PpuByte(pp.cgram, color * 2 + 1)
        val == hi * 256 + lo
    IN  [some |-> TRUE,
         rgb |-> [r |-> (val % 32) * 8, g |-> ((val \div 32) % 32) * 8,
                  b |-> ((val \div 1024) % 32) * 8],
         ovf |-> Bit(hi, 128)]

\* Ppu::backdrop_color
backdrop_color(pp) == lookup_color(pp, 0)

\* u16::leading_zeros
RECURSIVE BitLen(_)
BitLen(n) == IF n = 0 THEN 0 ELSE 1 + BitLen(n \div 2)
leading_zeros(n) == 16 - BitLen(n)

\* Ppu::color_count_for_bg, for the layers render_pixel asks about
color_count_for_bg(pp, bg) ==
    CASE bg_mode(pp) = 0 -> 4
      [] bg_mode(pp) = 1 -> IF bg = 3 THEN 4 ELSE 16
      [] bg_mode(pp) = 2 -> 16
      [] bg_mode(pp) = 3 -> IF bg = 1 THEN 256 ELSE 16
      [] bg_mode(pp) = 4 -> IF bg = 1 THEN 256 ELSE 4
      [] bg_mode(pp) = 5 -> IF bg = 1 THEN 16 ELSE 4
      [] bg_mode(pp) = 6 -> 16

\* Ppu::palette_base_for_bg_tile, for the layers each mode has
palette_base_for_bg_tile(pp, bg, palette_num) ==
    CASE bg_mode(pp) = 0 -> U8(palette_num * 4 + (bg - 1) * 32)
      [] bg_mode(pp) \in {1, 5} ->
            U8(palette_num * (color_count_for_bg(pp, bg) % 256))
      [] bg_mode(pp) = 2 -> U8(palette_num * 16)
      [] bg_mode(pp) = 3 -> IF bg = 1 THEN 0 ELSE U8(palette_num * 16)
      [] bg_mode(pp) = 4 -> IF bg = 1 THEN 0 ELSE U8(palette_num * 4)
      [] bg_mode(pp) = 6 -> U8(palette_num * 16)

\* Ppu::read_2_bitplanes
read_2_bitplanes(pp, bitplanes_start, x_off, y_off) ==
    LET lo_at == bitplanes_start + y_off * 2
        hi_at == bitplanes_start + y_off * 2 + 1
        lo == PpuByte(pp.vram, U16(lo_at))
        hi == PpuByte(pp.vram, U16(hi_at))
        shift == (7 + 256 - x_off) % 8
    IN  [val |-> (Shr(hi, shift) % 2) * 2 + (Shr(lo, shift) % 2),
         ovf |-> hi_at > 65535 \/ x_off > 7]

\* Ppu::read_chr_entry, line 651: one more pair of bitplanes
JoinPair(i, at, bits, rest) ==
    [val |-> BitOr(U8(bits.val * 2 ^ ((2 * i) % 8)), rest.val),
     ovf |-> at > 65535 \/ bits.ovf \/ 2 * i > 7 \/ rest.ovf]

\* lines 647-652: the loop over the pairs of bitplanes
RECURSIVE ReadPairs(_, _, _, _, _, _)
ReadPairs(pp, i, bitplane_pairs, start_addr, x_off, y_off) ==
    IF i = bitplane_pairs THEN [val |-> 0, ovf |-> FALSE]
    ELSE JoinPair(i, start_addr + i * 16,
                  read_2_bitplanes(pp, U16(start_addr + i * 16), x_off, y_off),
                  ReadPairs(pp, i + 1, bitplane_pairs, start_addr, x_off, y_off))

\* lines 640-641: the debug assertions on the arguments
ChrEntry(bitplane_count, tile_size, e) ==
    [val |-> e.val, ovf |-> bitplane_count % 2 = 1 \/ tile_size # 8 \/ e.ovf]

read_chr_entry(pp, bitplane_count, start_addr, tile_size, x_off, y_off) ==
    ChrEntry(bitplane_count, tile_size,
             ReadPairs(pp, 0, bitplane_count \div 2, start_addr, x_off, y_off))

NoColor(ovf) == [some |-> FALSE, rgb |-> [r |-> 0, g |-> 0, b |-> 0], ovf |-> ovf]
WithOvf(c, ovf) == [c EXCEPT !.ovf = @ \/ ovf]

\* Ppu::lookup_bg_color, lines 621-624
BgIndex(pp, ovf, index) ==
    IF index.val = 0 THEN NoColor(ovf \/ index.ovf)
    ELSE WithOvf(lookup_color(pp, index.val), ovf \/ index.ovf)

\* lines 607-608: "the number of bitplanes needed to store a color"
bitplane_count_of(color_count) == leading_zeros(color_count)

\* lines 612-614, before the wrap to 16 bits
bitplane_start_addr(bg, entry, bitplane_count) ==
    U16(bg.chr_addr * 2) + entry.tile_number * 8 * bitplane_count

\* lines 604-619
BgChr(pp, bg_num, prio, bg, ovf, off_x, off_y, entry, bitplane_count) ==
    IF entry.priority # prio THEN NoColor(ovf)
    ELSE BgIndex(pp,
                 ovf \/ bitplane_start_addr(bg, entry, bitplane_count) > 65535,
                 read_chr_entry(pp, bitplane_count,
                                U16(bitplane_start_addr(bg, entry,
                                                        bitplane_count)),
                                bg.tile_size, off_x, off_y))

\* lines 597-603
BgEntry(pp, bg_num, prio, bg, sx, sy, tile_x, tile_y, tilemap_word_address) ==
    BgChr(pp, bg_num, prio, bg,
          sx > 65535 \/ sy > 65535 \/ tilemap_word_address > 65535,
          U16(sx) % bg.tile_size, U16(sy) % bg.tile_size,
          tilemap_entry(pp, U16(tilemap_word_address)),
          bitplane_count_of(color_count_for_bg(pp, bg_num)))

\* lines 588-602
BgTile(pp, bg_num, prio, bg, sx, sy, tile_x, tile_y) ==
    BgEntry(pp, bg_num, prio, bg, sx, sy, tile_x, tile_y,
            U16(bg.tilemap_addr * 512)
            + (tile_y % 32) * 32
            + (tile_x % 32)
            + (IF bg.tilemap_mirror_v
               THEN ((tile_y \div 32) % 2) * 32
                    * (IF bg.tilemap_mirror_h THEN 64 ELSE 32)
               ELSE 0)
            + (IF bg.tilemap_mirror_h THEN ((tile_x \div 32) % 2) * 32 * 32
               ELSE 0))

\* lines 583-591
BgScroll(pp, bg_num, prio, bg, sx, sy) ==
    BgTile(pp, bg_num, prio, bg, sx, sy,
           U16(sx) \div bg.tile_size, U16(sy) \div bg.tile_size)

lookup_bg_color(pp, bg_num, prio) ==
    IF ~bg_enabled(pp, bg_num) THEN NoColor(FALSE)
    ELSE BgScroll(pp, bg_num, prio, bg_settings(pp, bg_num),
                  pp.x + bg_settings(pp, bg_num).hscroll,
                  pp.scanline + bg_settings(pp, bg_num).vscroll)

\* Ppu::sprite_on_scanline
sprite_on_scanline(pp, sprite) ==
    LET w == obj_size(pp, sprite.size_toggle)
        sx == IF sprite.x = -256 THEN 0 ELSE sprite.x
    IN  IF -w < sx
        THEN sprite.y <= pp.scanline /\ sprite.y + w >= pp.scanline
        ELSE FALSE

\* Ppu::collect_sprite_data_for_scanline, lines 421-433: the body of the
\* loop over the OAM entries.  `sprites`: the indices pushed to
\* visible_sprites, `scanned`: the entries looked at, `full`: the loop was
\* left by `break`
ScanStep(pp, i, st) ==
    IF sprite_on_scanline(pp, get_oam_entry(pp, i))
    THEN IF Len(st.sprites) = MaxVisibleSprites
         THEN [st EXCEPT !.scanned = i + 1, !.full = TRUE]
         ELSE [st EXCEPT !.scanned = i + 1, !.sprites = Append(@, i)]
    ELSE [st EXCEPT !.scanned = i + 1]

\* line 420: the loop over entries first .. first + n - 1, in order
RECURSIVE ScanOam(_, _, _, _)
ScanOam(pp, first, n, st) ==
    IF n = 1 THEN ScanStep(pp, first, st)
    ELSE LET half == n \div 2
             left == ScanOam(pp, first, half, st)
         IN  IF left.full THEN left
             ELSE ScanOam(pp, first + half, n - half, left)

\* lines 456-496: the tiles of one sprite's row on the scanline
SpriteRow(pp, sprite) ==
    LET sprite_w_tiles == obj_size(pp, sprite.size_toggle) \div 8
        sprite_y_off == pp.scanline - sprite.y
        y_tile == sprite_y_off \div 8
        tile_y_off == sprite_y_off % 8
        name_base == pp.obsel % 8
        name_select == (pp.obsel \div 8) % 4
        tile_start_word_addr ==
            (name_base * 8192 + sprite.tile * 16
             + sprite.name_table * ((name_select + 1) * 4096)) % 32768
        tile_start_addr == tile_start_word_addr * 2
        row_sum == tile_start_addr + 512 * y_tile
        y_row_start_addr == U16(row_sum)
    IN  [ovf |-> row_sum > 65535,
         tile_ovf |-> [i \in 1..sprite_w_tiles |->
                          y_row_start_addr + 32 * (i - 1) > 65535],
         tiles |-> [i \in 1..sprite_w_tiles |->
                       [chr_addr |-> U16(y_row_start_addr + 32 * (i - 1)),
                        x |-> sprite.x + 8 * (i - 1),
                        y_off |-> tile_y_off,
                        priority |-> sprite.priority,
                        palette |-> sprite.palette]]]

\* lines 488-501: the tiles of one row, as far as the list has room
EmitRow(tiles, ovf, row, room) ==
    [tiles |-> tiles \o SubSeq(row.tiles, 1,
                               IF Len(row.tiles) > room THEN room
                               ELSE Len(row.tiles)),
     ovf |-> ovf \/ row.ovf
             \/ \E i \in 1..Len(row.tiles) : i <= room /\ row.tile_ovf[i],
     stopped |-> Len(row.tiles) > room]

\* lines 454-502: the 'collect_tiles loop over the sprites, last found first
RECURSIVE EmitTiles(_, _, _)
EmitNext(pp, sprites, e) ==
    IF e.stopped THEN e ELSE EmitTiles(pp, Tail(sprites), e)

EmitTiles(pp, sprites, e) ==
    IF sprites = << >> THEN e
    ELSE EmitNext(pp, sprites,
                  EmitRow(e.tiles, e.ovf,
                          SpriteRow(pp, get_oam_entry(pp, Head(sprites))),
                          MaxVisibleTiles - Len(e.tiles)))

CollectResult(found, emitted) ==
    [visible_sprites |-> found.sprites,
     scanned |-> found.scanned,
     full |-> found.full,
     visible_sprite_tiles |-> emitted.tiles,
     stopped |-> emitted.stopped,
     ovf |-> emitted.ovf]

CollectTiles(pp, found) ==
    CollectResult(found,
                  EmitTiles(pp, Reverse(found.sprites),
                            [tiles |-> << >>, ovf |-> FALSE, stopped |-> FALSE]))

collect_sprite_data_for_scanline(pp) ==
    CollectTiles(pp, ScanOam(pp, 0, OamSprites,
                             [sprites |-> << >>, scanned |-> 0, full |-> FALSE]))

\* Ppu::maybe_draw_sprite_pixel, lines 518-527
SpriteColor(pp, tile, rel_color) ==
    WithOvf(lookup_color(pp, 128 + tile.palette * 16 + rel_color.val),
            rel_color.ovf)

\* lines 510-530
RECURSIVE DrawSpriteTile(_, _, _)
DrawTile(pp, tiles, prio, tile) ==
    IF tile.priority = prio /\ tile.x <= pp.x /\ tile.x + 8 > pp.x
    THEN SpriteColor(pp, tile,
                     read_chr_entry(pp, 4, tile.chr_addr, 8, pp.x - tile.x,
                                    tile.y_off))
    ELSE DrawSpriteTile(pp, Tail(tiles), prio)

DrawSpriteTile(pp, tiles, prio) ==
    IF tiles = << >> THEN NoColor(FALSE)
    ELSE DrawTile(pp, tiles, prio, Head(tiles))

maybe_draw_sprite_pixel(pp, prio) ==
    IF ~Bit(pp.tm, 16) THEN NoColor(FALSE)
    ELSE DrawSpriteTile(pp, pp.visible_sprite_tiles, prio)

\* the arguments of one try_layer!
Sprites(prio) == [kind |-> "Sprites", bg |-> 0, prio |-> prio]
BG(bg, prio) == [kind |-> "BG", bg |-> bg, prio |-> prio]

\* try_layer! (lines 343-354)
try_layer(pp, layer) ==
    IF layer.kind = "Sprites" THEN maybe_draw_sprite_pixel(pp, layer.prio)
    ELSE lookup_bg_color(pp, layer.bg, layer.prio)

Mode0LayersBgFirst ==
    <<Sprites(3), BG(2, 1), BG(1, 1), Sprites(2), BG(1, 0), BG(2, 0),
      Sprites(1), BG(3, 1), BG(4, 1), Sprites(0), BG(3, 0), BG(4, 0)>>

\* lines 359-370
Mode0Layers ==
    <<Sprites(3), BG(1, 1), BG(2, 1), Sprites(2), BG(1, 0), BG(2, 0),
      Sprites(1), BG(3, 1), BG(4, 1), Sprites(0), BG(3, 0), BG(4, 0)>>

\* lines 374-384
Mode1Layers(pp) ==
    (IF Bit(pp.bgmode, 8) THEN <<BG(3, 1)>> ELSE <<>>)
    \o <<Sprites(3), BG(1, 1), BG(2, 1), Sprites(2), BG(1, 0), BG(2, 0),
         Sprites(1)>>
    \o (IF ~Bit(pp.bgmode, 8) THEN <<BG(3, 1)>> ELSE <<>>)
    \o <<Sprites(0), BG(3, 0)>>

\* lines 389-396
Mode2To5Layers ==
    <<Sprites(3), BG(1, 1), Sprites(2), BG(2, 1), Sprites(1), BG(1, 0),
      Sprites(0), BG(2, 0)>>

\* lines 400-405
Mode6Layers ==
    <<Sprites(3), BG(1, 1), Sprites(2), Sprites(1), BG(1, 0), Sprites(0)>>

Layers(pp) ==
    CASE bg_mode(pp) = 0 -> Mode0Layers
      [] bg_mode(pp) = 1 -> Mode1Layers(pp)
      [] bg_mode(pp) \in 2..5 -> Mode2To5Layers
      [] bg_mode(pp) = 6 -> Mode6Layers

\* the try_layer!s of one mode in turn, then the backdrop
RECURSIVE TryLayers(_, _, _)
TryNext(pp, layers, ovf, c) ==
    IF c.some THEN WithOvf(c, ovf)
    ELSE TryLayers(pp, Tail(layers), ovf \/ c.ovf)

TryLayers(pp, layers, ovf) ==
    IF layers = << >> THEN WithOvf(backdrop_color(pp), ovf)
    ELSE TryNext(pp, layers, ovf, try_layer(pp, Head(layers)))

NewFrame(pp) == pp.x = 0 /\ pp.scanline = 0

\* line 323: "Entered new scanline."
NewScanline(pp) == pp.x = 0

\* line 328: the region of the palette display
InDebugRegion(pp) == pp.scanline < DebugRegion /\ pp.x < DebugRegion

PpuPanic(pp, msg) ==
    [ppu |-> pp, trap |-> msg, wrapped |-> FALSE,
     rgb |-> [r |-> 0, g |-> 0, b |-> 0], rebuilt |-> FALSE,
     visible_sprites |-> << >>, scanned |-> 0]

\* Ppu::render_pixel.  `dbg`: the build panics on overflow and on failed
\* debug assertions.  `pp1`: the Ppu after the rebuild of line 325, `col`:
\* what the rebuild collected, `out`: the color found.
RenderDone(pp, pp1, dbg, rebuilt, col, out) ==
    IF out.ovf /\ dbg
    THEN PpuPanic(pp, "debug assertion or arithmetic overflow")
    ELSE [ppu |-> pp1, trap |-> "none", wrapped |-> col.ovf \/ out.ovf,
          rgb |-> out.rgb, rebuilt |-> rebuilt,
          visible_sprites |-> col.visible_sprites, scanned |-> col.scanned]

\* lines 328-410
RenderColor(pp, pp1, dbg, rebuilt, col) ==
    IF InDebugRegion(pp1)
    THEN RenderDone(pp, pp1, dbg, rebuilt, col,
                    lookup_color(pp1, Shr(pp1.scanline, 2) * 16 + Shr(pp1.x, 2)))
    ELSE IF bg_mode(pp1) = 7 THEN PpuPanic(pp, "NYI: BG mode 7")
    ELSE RenderDone(pp, pp1, dbg, rebuilt, col,
                    TryLayers(pp1, Layers(pp1), FALSE))

\* lines 323-326
RenderRebuilt(pp, dbg, col) ==
    IF col.ovf /\ dbg THEN PpuPanic(pp, "arithmetic overflow")
    ELSE RenderColor(pp,
                     [pp EXCEPT !.visible_sprite_tiles = col.visible_sprite_tiles],
                     dbg, TRUE, col)

render_pixel(pp, dbg) ==
    IF NewScanline(pp)
    THEN IF ~obj_size_valid(pp)
         THEN PpuPanic(pp, "invalid sprite size selected")
         ELSE RenderRebuilt(pp, dbg, collect_sprite_data_for_scanline(pp))
    ELSE RenderColor(pp, pp, dbg, FALSE,
                     [visible_sprites |-> << >>, scanned |-> 0, ovf |-> FALSE])

(***************************************************************************)
(* SpecPpu: render_pixel called for the dots of a window of the frame.     *)
(* The caller, Ppu::update, is outside src/: it is taken to render every   *)
(* dot of a line from x = 0 on, one line after the other.  The window      *)
(* starts on the last line of the debug region and lines are LineDots      *)
(* long.                                                                   *)
(***************************************************************************)
LineDots == 3
LastLine == 64
FirstLine == DebugRegion - 1

\* sprite i takes oam[4i .. 4i+3]; every byte of the second table is `hib`
OamImage(vis, xb, yb, tileb, attr, hib) ==
    [i \in 0..543 |->
        IF i >= 512 THEN hib
        ELSE IF i % 4 = 0 THEN xb
        ELSE IF i % 4 = 1 THEN (IF (i \div 4) \in vis THEN yb ELSE 224)
        ELSE IF i % 4 = 2 THEN tileb
        ELSE attr]

\* color-RAM entries that tell the layers apart
Palette ==
    (0 :> 6) @@ (2 :> 1) @@ (4 :> 2) @@ (6 :> 3) @@ (8 :> 4) @@ (10 :> 5)
    @@ (256 :> 7) @@ (258 :> 8)

\* a Ppu with no sprite in range and empty video RAM.  stat77 is the status
\* register $213E, whose bits 6 and 7 report sprite and sprite-tile overflow:
\* lines 430 and 498 leave setting them as FIXMEs, nothing writes it.
BasePpu ==
    [obsel |-> 0, bgmode |-> 0, tm |-> 16, bgsc |-> <<0, 0, 0, 0>>,
     bg12nba |-> 16, bg34nba |-> 50, hofs |-> <<0, 0, 0, 0>>,
     vofs |-> <<0, 0, 0, 0>>, oam |-> OamImage({}, 0, 0, 0, 0, 0),
     vram |-> << >>, cgram |-> Palette, x |-> 0, scanline |-> FirstLine,
     visible_sprite_tiles |-> << >>, stat77 |-> 0]

\* sprites in range of the window's lines
VisSets ==
    {{}, 0..16, 0..17, 0..31, 0..32, 0..39, 0..127,
     {i \in 0..127 : i % 3 = 0}}
SpriteObsel == {0, 3, 5, 6}
SpriteTables == {0, 85}
SpriteTiles == {<<0, 0>>, <<255, 49>>}

SpriteConfigs ==
    {[BasePpu EXCEPT !.obsel = o,
                     !.oam = OamImage(vis, 0, 56, t[1], t[2], hib)] :
        vis \in VisSets, o \in SpriteObsel, hib \in SpriteTables,
        t \in SpriteTiles}

\* character data: layer `bg` of the set shows palette index `bg` at x = 0
\* of the tile row on LastLine; the tilemap entries all carry priority `pr`
ChrImage(opaque, pr) ==
    LET cell == [bg \in 1..4 |->
                   IF bg \notin opaque THEN << >>
                   ELSE IF bg = 1 THEN (0 :> 128)
                   ELSE IF bg = 2 THEN (8193 :> 128)
                   ELSE IF bg = 3 THEN (16384 :> 128) @@ (16385 :> 128)
                   ELSE (24592 :> 128)]
    IN  cell[1] @@ cell[2] @@ cell[3] @@ cell[4]
        @@ [i \in {449, 513} |-> pr * 32]

OpaqueSets == {{}, {1}, {2}, {3}, {4}, {1, 2, 3, 4}}
LayerMasks == {31, 15, 16}
OtherModes == {1, 9, 2, 6, 7}

PixelConfig(m, mask, opaque, pr, sp, sx) ==
    [BasePpu EXCEPT !.bgmode = m, !.tm = mask,
                    !.vram = ChrImage(opaque, pr),
                    !.oam = OamImage({0}, sx, 60, 0, sp * 16, 0)]

\* mode 0 with every combination, the other modes with all layers showing
PixelConfigs ==
    {PixelConfig(0, mask, opaque, pr, sp, sx) :
        mask \in LayerMasks, opaque \in OpaqueSets, pr \in {0, 1},
        sp \in 0..3, sx \in {0, 1}}
    \cup {PixelConfig(m, 31, {1, 2, 3, 4}, pr, sp, 1) :
            m \in OtherModes, pr \in {0, 1}, sp \in {0, 3}}

\* one 8x8 sprite of tile 1 whose row on LastLine shows palette index 3 at
\* its first pixel (both bitplanes of the first pair) and index 0 elsewhere
SpriteChrImage == (40 :> 128) @@ (41 :> 128)
SpritePalettes == {0, 2, 7}

SpriteChrConfigs ==
    {[BasePpu EXCEPT !.tm = mask,
                     !.vram = SpriteChrImage,
                     !.cgram = Palette @@ (262 :> 9) @@ (326 :> 10)
                               @@ (486 :> 11),
                     !.oam = OamImage({0}, 0, 60, 1, sp * 16 + pal * 2, 0)] :
        mask \in {16, 31}, sp \in {0, 3}, pal \in SpritePalettes}

\* the tilemap entry of the tile row on LastLine names tile 1, palette 3,
\* priority 0, and BG2's character data holds palette index 1 at the first
\* pixel of the tile lookup_bg_color reads for it
BgTileImage == (512 :> 1) @@ (513 :> 12) @@ (8296 :> 128)

BgTileConfigs ==
    {[BasePpu EXCEPT !.tm = mask, !.vram = BgTileImage] : mask \in {2, 3}}

\* sprite 0 at X byte 200 with bit 8 of its X set in the second table
OamSignConfigs == {[BasePpu EXCEPT !.oam = OamImage({0}, 200, 56, 0, 0, 2)]}

RenderPixel ==
    /\ trap = "none" /\ ppu_pc = "render"
    /\ \E dbg \in (IF build = "release" THEN {FALSE} ELSE BOOLEAN) :
       \E r \in {render_pixel(ppu, dbg)} :
              /\ trap' = r.trap
              /\ build' = IF r.wrapped THEN "release" ELSE build
              /\ ppu' = r.ppu
              /\ IF r.trap = "none"
                 THEN /\ ppu_ret' = r.rgb
                      /\ ppu_pc' = "advance"
                      /\ IF r.rebuilt
                         THEN /\ visible_sprites' = r.visible_sprites
                              /\ scanned' = r.scanned
                              /\ built_for' = ppu.scanline
                         ELSE UNCHANGED <<visible_sprites, scanned, built_for>>
                 ELSE UNCHANGED <<ppu_ret, ppu_pc, visible_sprites, scanned,
                                  built_for>>
    /\ ppu_op' = "render_pixel"
    /\ UNCHANGED <<a, x, y, s, dbr, pbr, d, pc, p, emulation, mem, bus>>
    /\ UNCHANGED <<dispVars, stackVars, schedVars, amVars, wram, peri_op,
                   peri_ret, onceVars>>

\* the caller moves on to the next dot
PpuAdvance ==
    /\ trap = "none" /\ ppu_pc = "advance"
    /\ ppu.x + 1 < LineDots \/ ppu.scanline < LastLine
    /\ ppu' = IF ppu.x + 1 < LineDots
              THEN [ppu EXCEPT !.x = @ + 1]
              ELSE [ppu EXCEPT !.x = 0, !.scanline = @ + 1]
    /\ ppu_pc' = "render"
    /\ ppu_op' = "advance"
    /\ UNCHANGED <<ppu_ret, visible_sprites, scanned, built_for>>
    /\ UNCHANGED <<cpuVars, dispVars, stackVars, schedVars, amVars, wram,
                   peri_op, peri_ret, onceVars>>

InitPpuSpec ==
    /\ InitCpu(ResetCpu(0, 128))
    /\ InitDisp
    /\ InitStk
    /\ InitSched
    /\ InitAm
    /\ InitPeri
    /\ InitOnce
    /\ \E cfg \in SpriteConfigs \cup PixelConfigs \cup SpriteChrConfigs
                   \cup BgTileConfigs \cup OamSignConfigs :
          ppu = [cfg EXCEPT !.visible_sprite_tiles =
                    IF obj_size_valid(cfg)
                    THEN collect_sprite_data_for_scanline(
                            [cfg EXCEPT !.scanline = FirstLine - 1]
                         ).visible_sprite_tiles
                    ELSE << >>]
    /\ ppu_op = "none" /\ ppu_ret = [r |-> 0, g |-> 0, b |-> 0]
    /\ ppu_pc = "render"
    /\ visible_sprites = << >> /\ scanned = 0 /\ built_for = FirstLine - 1

NextPpu == RenderPixel \/ PpuAdvance

SpecPpu == InitPpuSpec /\ [][NextPpu]_vars

\* the sprites in range of the scanline, by Ppu::sprite_on_scanline
InRange(pp) ==
    {i \in 0..(OamSprites - 1) : sprite_on_scanline(pp, get_oam_entry(pp, i))}

\* the n-th sprite in range, in scan order
NthInRange(pp, n) ==
    CHOOSE i \in InRange(pp) : Cardinality({j \in InRange(pp) : j < i}) = n - 1

\* render_pixel has just rebuilt the list for the scanline
Rebuilt == ppu_pc = "advance" /\ trap = "none" /\ ppu.x = 0

\* the selection of at most 32 sprites: the first 32 in scan order, and no
\* entry looked at after the one that did not fit
SpriteCapSelection ==
    (Rebuilt /\ Cardinality(InRange(ppu)) > MaxVisibleSprites) =>
        /\ Len(visible_sprites) = MaxVisibleSprites
        /\ \A n \in 1..MaxVisibleSprites : visible_sprites[n] = NthInRange(ppu, n)
        /\ scanned = NthInRange(ppu, MaxVisibleSprites + 1) + 1

\* C26: when more than 32 OAM entries are in range of the scanline, exactly
\* 32 are selected, the first 32 in scan order, no further entry is scanned,
\* and the sprite-overflow condition (bit 6 of $213E) is raised.
C26_SpriteCap ==
    /\ SpriteCapSelection
    /\ (Rebuilt /\ Cardinality(InRange(ppu)) > MaxVisibleSprites) =>
          Bit(ppu.stat77, 64)

\* the tiles of the rows of the selected sprites
RECURSIVE RowTiles(_, _)
RowTiles(pp, sprites) ==
    IF sprites = << >> THEN 0
    ELSE obj_size(pp, get_oam_entry(pp, Head(sprites)).size_toggle) \div 8
         + RowTiles(pp, Tail(sprites))

\* the list never holds more than 34 tiles and holds 34 when the selected
\* sprites have more
TileCapLength ==
    /\ Len(ppu.visible_sprite_tiles) <= MaxVisibleTiles
    /\ (Rebuilt /\ RowTiles(ppu, visible_sprites) > MaxVisibleTiles) =>
          Len(ppu.visible_sprite_tiles) = MaxVisibleTiles

\* C27: after every scanline rebuild the visible-sprite-tile list holds at
\* most 34 descriptors; when the selected sprites have more than 34 tiles,
\* emission stops at 34 and the tile-overflow condition (bit 7 of $213E) is
\* set.
C27_TileCap ==
    /\ TileCapLength
    /\ (Rebuilt /\ RowTiles(ppu, visible_sprites) > MaxVisibleTiles) =>
          Bit(ppu.stat77, 128)

\* the list a rebuild on the Ppu's scanline gives
ListFor(pp) == collect_sprite_data_for_scanline(pp).visible_sprite_tiles

\* C28: whenever a pixel is rendered, the sprite-tile list consulted is the
\* one built for the pixel's scanline; a render at x # 0 does not modify the
\* list, and neither does the move to the next dot.
C28_ListOfScanline ==
    [][/\ (ppu_pc = "render" /\ ppu_pc' = "advance") =>
            /\ built_for' = ppu.scanline
            /\ ppu'.visible_sprite_tiles = ListFor(ppu)
            /\ ppu.x # 0 =>
                  ppu'.visible_sprite_tiles = ppu.visible_sprite_tiles
       /\ (ppu_pc = "advance" /\ ppu_pc' = "render") =>
            ppu'.visible_sprite_tiles = ppu.visible_sprite_tiles]_vars

\* the last dot of the window's second line was rendered from that line's
\* list, which differs from the list of the line before
C28_Witness ==
    /\ ppu_pc = "advance" /\ trap = "none"
    /\ ppu.x = LineDots - 1 /\ ppu.scanline = FirstLine + 1
    /\ built_for = FirstLine + 1
    /\ ppu.visible_sprite_tiles # << >>
    /\ ppu.visible_sprite_tiles # ListFor([ppu EXCEPT !.scanline = FirstLine])

\* the order of the candidates in BG mode 0
PriorityOrder0 ==
    <<Sprites(3), BG(1, 1), BG(2, 1), Sprites(2), BG(1, 0), BG(2, 0),
      Sprites(1), BG(3, 1), BG(4, 1), Sprites(0), BG(3, 0), BG(4, 0)>>

\* the candidates of the sequence that are not transparent
Shown(pp, order) == {i \in 1..Len(order) : try_layer(pp, order[i]).some}

\* the color of the first of them, or the backdrop
FirstShown(pp, order) ==
    IF Shown(pp, order) = {} THEN lookup_color(pp, 0).rgb
    ELSE try_layer(pp, order[CHOOSE i \in Shown(pp, order) :
                                 \A j \in Shown(pp, order) : i <= j]).rgb

\* render_pixel has returned a color for a dot outside the debug region
Composited ==
    /\ ppu_pc = "advance" /\ trap = "none"
    /\ ~InDebugRegion(ppu)

TilemapWords ==
    {0, 7, 1023, 1024, 7168, 8192, 16384, 32768, 40967, 41991, 49152, 65535}
TilemapAddrs == {0, 256, 4095}

\* video RAM with `word` at `word_address`, low byte first
TilemapImage(word_address, word) ==
    (word_address * 2 :> Lo(word)) @@ (word_address * 2 + 1 :> Hi(word))

\* the word of video RAM at a word address
TilemapWord(pp, word_address) ==
    PpuByte(pp.vram, word_address * 2)
    + 256 * PpuByte(pp.vram, word_address * 2 + 1)

InitTilemapSpec ==
    /\ InitCpu(ResetCpu(0, 128))
    /\ InitDisp
    /\ InitStk
    /\ InitSched
    /\ InitAm
    /\ InitPeri
    /\ InitOnce
    /\ \E wa \in TilemapAddrs, w \in TilemapWords :
          ppu = [BasePpu EXCEPT !.vram = TilemapImage(wa, w)]
    /\ ppu_op = "none" /\ ppu_ret = [r |-> 0, g |-> 0, b |-> 0]
    /\ ppu_pc = "render"
    /\ visible_sprites = << >> /\ scanned = 0 /\ built_for = -1

TilemapEntry ==
    /\ \E wa \in TilemapAddrs :
          ppu_ret' = [word_address |-> wa, entry |-> tilemap_entry(ppu, wa)]
    /\ ppu_op' = "tilemap_entry"
    /\ UNCHANGED <<ppu, ppu_pc, visible_sprites, scanned, built_for>>
    /\ UNCHANGED <<cpuVars, dispVars, stackVars, schedVars, amVars, wram,
                   peri_op, peri_ret, onceVars>>

NextTilemap == TilemapEntry

SpecTilemap == InitTilemapSpec /\ [][NextTilemap]_vars

\* the fields of a tilemap word by the bit layout vhopppcc cccccccc
DecodedByLayout(w, e) ==
    /\ e.vflip = Bit(w, 32768)
    /\ e.hflip = Bit(w, 16384)
    /\ e.priority = (w \div 8192) % 2
    /\ e.palette = (w \div 1024) % 8
    /\ e.tile_number = w % 1024

\* C29, as stated: a tilemap entry is decoded as vflip = bit 15, hflip =
\* bit 14, priority = bit 13, palette = the three bits below, tile number =
\* the low ten bits, and 0xA007 decodes to hflip false, vflip true,
\* priority 1, palette 1, tile number 7.
C29_DecodeAsStated ==
    ppu_op = "tilemap_entry" =>
        LET w == TilemapWord(ppu, ppu_ret.word_address)
        IN  /\ DecodedByLayout(w, ppu_ret.entry)
            /\ w = 40967 =>
                  ppu_ret.entry = [vflip |-> TRUE, hflip |-> FALSE,
                                   priority |-> 1, palette |-> 1,
                                   tile_number |-> 7]

\* C29, amended: the same bit layout; 0xA007 decodes to palette 0, and it
\* is 0xA407 that decodes to hflip false, vflip true, priority 1,
\* palette 1, tile number 7.
C29_TilemapDecode ==
    ppu_op = "tilemap_entry" =>
        LET w == TilemapWord(ppu, ppu_ret.word_address)
        IN  /\ DecodedByLayout(w, ppu_ret.entry)
            /\ w = 40967 =>
                  ppu_ret.entry = [vflip |-> TRUE, hflip |-> FALSE,
                                   priority |-> 1, palette |-> 0,
                                   tile_number |-> 7]
            /\ w = 41991 =>
                  ppu_ret.entry = [vflip |-> TRUE, hflip |-> FALSE,
                                   priority |-> 1, palette |-> 1,
                                   tile_number |-> 7]

\* the entry of the word 0xA007 was read
C29_Witness ==
    /\ ppu_op = "tilemap_entry"
    /\ TilemapWord(ppu, ppu_ret.word_address) = 40967
    /\ ppu_ret.entry.vflip /\ ppu_ret.entry.priority = 1
    /\ ppu_ret.entry.palette = 0 /\ ppu_ret.entry.tile_number = 7

\* the positions in the list of the sprite tiles of a priority that cover
\* the Ppu's x
Covering(pp, prio) ==
    {i \in 1..Len(pp.visible_sprite_tiles) :
        /\ pp.visible_sprite_tiles[i].priority = prio
        /\ pp.visible_sprite_tiles[i].x <= pp.x
        /\ pp.visible_sprite_tiles[i].x + 8 > pp.x}

\* the first of them: the tile maybe_draw_sprite_pixel draws
CoveringTile(pp, prio) ==
    pp.visible_sprite_tiles[CHOOSE i \in Covering(pp, prio) :
                               \A j \in Covering(pp, prio) : i <= j]

\* the 4-bit palette index the tile's character data holds for the pixel
SpriteIndex(pp, tile) ==
    read_chr_entry(pp, 4, tile.chr_addr, 8, pp.x - tile.x, tile.y_off).val

\* render_pixel has returned for the Ppu's dot, the sprite layer is enabled
\* and a tile of the priority covers the dot
SpriteCase(pp, prio) ==
    /\ ppu_pc = "advance" /\ trap = "none"
    /\ Bit(pp.tm, 16) /\ Covering(pp, prio) # {}

\* a non-zero index resolves to color-RAM entry 128 + palette * 16 + index
SpriteOpaqueIndex ==
    \A prio \in 0..3 :
        (SpriteCase(ppu, prio) /\ SpriteIndex(ppu, CoveringTile(ppu, prio)) # 0)
        => LET tile == CoveringTile(ppu, prio)
               entry == 128 + tile.palette * 16 + SpriteIndex(ppu, tile)
           IN  /\ entry \in 128..255
               /\ maybe_draw_sprite_pixel(ppu, prio).some
               /\ maybe_draw_sprite_pixel(ppu, prio).rgb
                  = lookup_color(ppu, entry).rgb

\* C31: for a sprite tile covering the pixel at the requested priority, a
\* decoded palette index of 0 is transparent (the sprite layer yields no
\* color at that priority), and a non-zero index resolves to color-RAM
\* entry 128 + palette * 16 + index, which lies in 128..255.
C31_SpritePaletteIndex ==
    /\ SpriteOpaqueIndex
    /\ \A prio \in 0..3 :
          (SpriteCase(ppu, prio)
           /\ SpriteIndex(ppu, CoveringTile(ppu, prio)) = 0)
          => ~maybe_draw_sprite_pixel(ppu, prio).some

\* a sprite pixel of index 3 in palette 2 was drawn from color-RAM entry 163
SpriteOpaqueSeen ==
    /\ ~InDebugRegion(ppu)
    /\ SpriteCase(ppu, 3)
    /\ SpriteIndex(ppu, CoveringTile(ppu, 3)) = 3
    /\ CoveringTile(ppu, 3).palette = 2
    /\ ppu_ret = lookup_color(ppu, 163).rgb
    /\ ppu_ret # lookup_color(ppu, 0).rgb

\* the background layers render_pixel asks about in the Ppu's mode
BgLayers(pp) == {Layers(pp)[i].bg : i \in {j \in 1..Len(Layers(pp)) :
                                            Layers(pp)[j].kind = "BG"}}

\* what lookup_bg_color computes for the Ppu's dot on a layer (lines
\* 583-619): the tilemap entry, the bitplane count, the address of the
\* tile's character data and the palette index decoded there
BgPixel(pp, bg_num) ==
    LET bg == bg_settings(pp, bg_num)
        sx == U16(pp.x + bg.hscroll)
        sy == U16(pp.scanline + bg.vscroll)
        tile_x == sx \div bg.tile_size
        tile_y == sy \div bg.tile_size
        tilemap_word_address ==
            U16(U16(bg.tilemap_addr * 512)
                + (tile_y % 32) * 32
                + (tile_x % 32)
                + (IF bg.tilemap_mirror_v
                   THEN ((tile_y \div 32) % 2) * 32
                        * (IF bg.tilemap_mirror_h THEN 64 ELSE 32)
                   ELSE 0)
                + (IF bg.tilemap_mirror_h THEN ((tile_x \div 32) % 2) * 32 * 32
                   ELSE 0))
        entry == tilemap_entry(pp, tilemap_word_address)
        count == bitplane_count_of(color_count_for_bg(pp, bg_num))
        start == U16(bitplane_start_addr(bg, entry, count))
    IN  [chr_base |-> U16(bg.chr_addr * 2),
         entry |-> entry,
         bitplane_count |-> count,
         start_addr |-> start,
         index |-> read_chr_entry(pp, count, start, bg.tile_size,
                                  sx % bg.tile_size, sy % bg.tile_size).val]

Log2(n) == BitLen(n) - 1

\* render_pixel was called for a dot outside the debug region, in a mode
\* with background layers
BgCase ==
    /\ ppu_op = "render_pixel"
    /\ ~InDebugRegion(ppu) /\ bg_mode(ppu) # 7

\* C32: background tiles are decoded at the bit depth of the layer's color
\* count in the active mode: the bitplane count is log2 of the color count
\* (2 for 4 colors, 4 for 16, 8 for 256), it is even, and the tile's
\* character data starts 8 * bitplane count bytes per tile number after
\* the layer's character base.
C32_BitplaneCount ==
    BgCase =>
        \A bg \in BgLayers(ppu) :
            LET colors == color_count_for_bg(ppu, bg)
                px == BgPixel(ppu, bg)
            IN  /\ colors \in {4, 16, 256}
                /\ px.bitplane_count = Log2(colors)
                /\ px.bitplane_count % 2 = 0
                /\ px.start_addr
                   = U16(px.chr_base + px.entry.tile_number * 8 * Log2(colors))

\* the half of it that holds: the address advances by 8 * the bitplane
\* count lookup_bg_color computed
BgTileStride ==
    BgCase =>
        \A bg \in BgLayers(ppu) :
            LET px == BgPixel(ppu, bg)
            IN  px.start_addr
                = U16(px.chr_base + px.entry.tile_number * 8 * px.bitplane_count)

\* lookup_bg_color yields a color exactly for an enabled layer whose tile
\* has the priority asked for and a non-zero palette index at the dot
BgPixelShown ==
    BgCase =>
        \A bg \in BgLayers(ppu), prio \in {0, 1} :
            lookup_bg_color(ppu, bg, prio).some
            <=> /\ bg_enabled(ppu, bg)
                /\ BgPixel(ppu, bg).entry.priority = prio
                /\ BgPixel(ppu, bg).index # 0

\* C33: a non-transparent background pixel is looked up in color RAM at
\* the palette base of (layer, tilemap-entry palette) in the mode plus the
\* decoded index (mode 0: palette * 4 + (bg - 1) * 32 + index).
C33_PaletteBase ==
    BgCase =>
        \A bg \in BgLayers(ppu), prio \in {0, 1} :
            lookup_bg_color(ppu, bg, prio).some =>
                LET px == BgPixel(ppu, bg)
                    base == palette_base_for_bg_tile(ppu, bg, px.entry.palette)
                IN  /\ bg_mode(ppu) = 0 =>
                          base = px.entry.palette * 4 + (bg - 1) * 32
                    /\ lookup_bg_color(ppu, bg, prio).rgb
                       = lookup_color(ppu, U8(base + px.index)).rgb

\* what lookup_bg_color does instead: the decoded index alone is the
\* color-RAM entry
BgIndexIsEntry ==
    BgCase =>
        \A bg \in BgLayers(ppu), prio \in {0, 1} :
            lookup_bg_color(ppu, bg, prio).some =>
                lookup_bg_color(ppu, bg, prio).rgb
                = lookup_color(ppu, BgPixel(ppu, bg).index).rgb

(***************************************************************************)
(* SpecOnce: threads reaching call sites of once!.  The macro is one       *)
(* atomic swap on the call site's static (SeqCst) followed, in the thread  *)
(* that read false, by the evaluation of the expression; threads           *)
(* interleave between the two steps.                                       *)
(***************************************************************************)
swap_keeps(reached, val) == [old |-> reached, new |-> reached]

\* AtomicBool::swap: stores `val`, returns the previous value
swap(reached, val) == [old |-> reached, new |-> val]

\* a thread arrives at a call site
OnceReach(t) ==
    /\ once_pc[t] = "out" /\ once_visits[t] < MaxVisits
    /\ \E c \in OnceSites : once_site' = [once_site EXCEPT ![t] = c]
    /\ once_pc' = [once_pc EXCEPT ![t] = "swap"]
    /\ once_visits' = [once_visits EXCEPT ![t] = @ + 1]
    /\ UNCHANGED <<REACHED, once_evals, once_by>>

\* line 7: if REACHED.swap(true, Ordering::SeqCst) == false
OnceSwap(t) ==
    /\ once_pc[t] = "swap"
    /\ \E r \in {swap(REACHED[once_site[t]], TRUE)} :
          /\ REACHED' = [REACHED EXCEPT ![once_site[t]] = r.new]
          /\ once_pc' = [once_pc EXCEPT ![t] = IF r.old = FALSE THEN "eval"
                                               ELSE "out"]
    /\ UNCHANGED <<once_site, once_visits, once_evals, once_by>>

\* line 8: $e;
OnceEval(t) ==
    /\ once_pc[t] = "eval"
    /\ once_evals' = [once_evals EXCEPT ![once_site[t]] = @ + 1]
    /\ once_by' = [once_by EXCEPT ![once_site[t]] = @ \cup {t}]
    /\ once_pc' = [once_pc EXCEPT ![t] = "out"]
    /\ UNCHANGED <<REACHED, once_site, once_visits>>

InitOnceSpec ==
    /\ InitCpu(ResetCpu(0, 128))
    /\ InitDisp
    /\ InitStk
    /\ InitSched
    /\ InitAm
    /\ InitDev
    /\ InitOnce

NextOnce ==
    \E t \in OnceThreads :
        /\ OnceReach(t) \/ OnceSwap(t) \/ OnceEval(t)
        /\ UNCHANGED <<cpuVars, dispVars, stackVars, schedVars, amVars,
                       devVars>>

SpecOnce == InitOnceSpec /\ [][NextOnce]_vars

\* the threads inside the expression of a call site
Evaluating(c) == {t \in OnceThreads : once_pc[t] = "eval" /\ once_site[t] = c}

\* some thread has executed the swap of the call site
Swapped(c) == REACHED[c]

\* C34: the expression given to once! is evaluated at most once per call
\* site, also when several threads reach the call site concurrently:
\* exactly one of the racing threads evaluates it (the one whose swap read
\* false) and every later arrival skips it.
C34_OncePerCallSite ==
    /\ [](\A c \in OnceSites :
             /\ once_evals[c] + Cardinality(Evaluating(c)) <= 1
             /\ Swapped(c) <=>
                   once_evals[c] + Cardinality(Evaluating(c)) = 1)
    /\ [][\A t \in OnceThreads :
             (once_pc[t] = "swap" /\ once_pc'[t] # "swap"
              /\ REACHED[once_site[t]])
             => once_pc'[t] = "out" /\ once_evals' = once_evals]_vars

\* two threads raced at one call site: one is still inside the expression,
\* the other arrived meanwhile, swapped, and has skipped it
C34_Witness ==
    \E t, u \in OnceThreads :
        /\ t # u
        /\ once_pc[t] = "eval" /\ once_site[t] = "spc700"
        /\ once_pc[u] = "out" /\ once_site[u] = "spc700"
        /\ once_visits[u] = 1
        /\ once_evals["spc700"] = 0 /\ REACHED["spc700"]

(***************************************************************************)
(* SpecJsr: JSR and RTS dispatched on CPUs whose program bank, program     *)
(* counter, stack pointer and mode are drawn from JsrStarts: stack         *)
(* pointers at the wrap points of both modes, a JSR whose operand ends at  *)
(* the end of its bank.                                                    *)
(***************************************************************************)
JsrBanks == {0, 126}
JsrPcs == {32768, 65534}
JsrStacks == ({TRUE} \X {256, 257, 511}) \cup ({FALSE} \X {0, 1, 65535, 511})

JsrStarts ==
    {[ResetCpu(0, 128) EXCEPT !.pbr = b, !.pc = w, !.emulation = m[1],
                              !.s = m[2]] :
        b \in JsrBanks, w \in JsrPcs, m \in JsrStacks}

InitJsr ==
    /\ \E c \in JsrStarts : InitCpu(c)
    /\ InitDisp
    /\ InitStk
    /\ InitSched
    /\ InitAm
    /\ InitDev
    /\ InitOnce

NextJsr == OpJsr \/ OpRts

SpecJsr == InitJsr /\ [][NextJsr]_vars

\* JSR has just run; its bus log: the three fetches, then the three pushes
JsrDone == op = 32 /\ trap = "none"
JsrFetchedAt == [bank |-> bus[1].bank, addr |-> bus[1].addr]
JsrStackBefore == DataBus[1].addr
JsrReturnAddress == U16(JsrFetchedAt.addr + 3)

\* C35: JSR pushes PBR, PC high, PC low (PC being the address of the
\* instruction after the JSR's operand), and an RTS that follows it with
\* no stack activity in between restores PBR, sets PC to that address and
\* leaves S as it was before the JSR.
C35_JsrRtsRoundTrip ==
    /\ [](JsrDone =>
            /\ Len(DataBus) = 3
            /\ \A i \in 1..3 : DataBus[i].kind = "store"
            /\ DataBus[1].val = JsrFetchedAt.bank
            /\ DataBus[2].val = Hi(JsrReturnAddress)
            /\ DataBus[3].val = Lo(JsrReturnAddress))
    /\ [][(JsrDone /\ op' = 96 /\ trap' = "none") =>
            /\ pbr' = JsrFetchedAt.bank
            /\ pc' = JsrReturnAddress
            /\ s' = JsrStackBefore]_vars

\* a JSR at 7E:FFFE with S = 0x0100 in emulation mode pushed across the
\* wrap of the stack page, and the RTS returned to 7E:0001 with S = 0x0100
C35_Witness ==
    /\ op = 96 /\ trap = "none" /\ steps = 2
    /\ emulation /\ s = 256 /\ pbr = 126 /\ pc = 1
    /\ DataBus[1].addr = 510 /\ DataBus[3].addr = 256
    /\ DataBus[3].val = 126

\* a sprite's X with -256 counted as 0
RangeX(sprite) == IF sprite.x = -256 THEN 0 ELSE sprite.x

\* the scanline lies in the rows Y .. Y + rows - 1 of the sprite, and the
\* sprite is not wholly left of the screen
InSpan(pp, sprite, rows) ==
    /\ sprite.y <= pp.scanline /\ pp.scanline <= sprite.y + rows - 1
    /\ -obj_size(pp, sprite.size_toggle) < RangeX(sprite)

\* the sprite's row of tiles the scanline falls into
TileRow(pp, sprite) == (pp.scanline - sprite.y) \div 8

\* C36: a sprite is selected for a scanline exactly when the scanline lies
\* inside its span of h rows starting at its Y (Y <= scanline <= Y + h - 1)
\* and its X, with -256 counted as 0, satisfies -w < X; every emitted tile
\* descriptor has an in-tile Y offset in 0..7 and comes from a tile row
\* below h / 8.
C36_SpriteSelection ==
    Rebuilt =>
        /\ \A i \in 0..(OamSprites - 1) :
              LET sprite == get_oam_entry(ppu, i)
              IN  sprite_on_scanline(ppu, sprite)
                  <=> InSpan(ppu, sprite, obj_size(ppu, sprite.size_toggle))
        /\ \A n \in 1..Len(ppu.visible_sprite_tiles) :
              ppu.visible_sprite_tiles[n].y_off \in 0..7
        /\ \A n \in 1..Len(visible_sprites) :
              LET sprite == get_oam_entry(ppu, visible_sprites[n])
              IN  TileRow(ppu, sprite) < obj_size(ppu, sprite.size_toggle) \div 8

\* what sprite_on_scanline selects: a span of h + 1 rows
SpriteSpanAsCoded ==
    Rebuilt =>
        \A i \in 0..(OamSprites - 1) :
            LET sprite == get_oam_entry(ppu, i)
            IN  sprite_on_scanline(ppu, sprite)
                <=> InSpan(ppu, sprite, obj_size(ppu, sprite.size_toggle) + 1)

\* the 2-bit field of sprite `index` in the second OAM table: 4 sprites
\* per byte, 2 bits each, sprite 4k in the low bits
OamField(pp, index) ==
    (PpuByte(pp.oam, 512 + (index \div 4)) \div (4 ^ (index % 4))) % 4

\* C37: get_oam_entry decodes sprite i with its size-toggle and X bit 8
\* taken from the 2-bit field of byte 512 + i / 4 that belongs to sprite i
\* (size-toggle the lower bit), and X as a signed 9-bit value: X lies in
\* -256..255 and equals the low X byte - 256 whenever bit 8 is set.
C37_OamDecode ==
    Rebuilt =>
        \A i \in 0..(OamSprites - 1) :
            LET sprite == get_oam_entry(ppu, i)
                field == OamField(ppu, i)
                xlow == PpuByte(ppu.oam, i * 4)
            IN  /\ sprite.size_toggle <=> field % 2 = 1
                /\ sprite.x \in -256..255
                /\ sprite.x = IF field \div 2 = 1 THEN xlow - 256 ELSE xlow

\* the sign extension alone, for the sprites whose field get_oam_entry
\* finds (those with i % 4 = 0)
OamSignExtension ==
    Rebuilt =>
        \A i \in {j \in 0..(OamSprites - 1) : j % 4 = 0} :
            OamField(ppu, i) \div 2 = 1 =>
                get_oam_entry(ppu, i).x = PpuByte(ppu.oam, i * 4) - 256

\* what get_oam_entry computes: the field is read at a shift of i % 4 bits
\* and a set bit 8 ORs 0xFFF0 into X
OamDecodeAsCoded ==
    Rebuilt =>
        \A i \in 0..(OamSprites - 1) :
            LET sprite == get_oam_entry(ppu, i)
                info == (PpuByte(ppu.oam, 512 + (i \div 4)) \div (2 ^ (i % 4))) % 4
                xlow == PpuByte(ppu.oam, i * 4)
            IN  /\ sprite.size_toggle <=> info % 2 = 1
                /\ sprite.x = IF info \div 2 = 1
                              THEN BitOr(65520, xlow) - 65536 ELSE xlow

\* C38: cycles are conserved for each subsystem: the master-cycle counter
\* equals the master cycles spent on the audio processor plus the audio
\* debt, and the master cycles spent on the picture processor plus the
\* picture debt (debts may be negative).  Stated for every state of the
\* scheduler: the iteration boundaries and the points between two turns
\* of the drain loops.
C38_CycleConservation ==
    /\ master_cy = total_apu_cy + apu_master_cy_debt
    /\ master_cy = total_ppu_cy + ppu_master_cy_debt

\* an iteration boundary after the NMI break: the audio processor has run
\* ahead of the CPU (negative debt), the picture processor is still owed
C38_Witness ==
    /\ sched_pc = "cpu" /\ trap = "none" /\ dispatched >= 2
    /\ apu_master_cy_debt < 0 /\ ppu_master_cy_debt > 0
    /\ total_apu_cy > master_cy /\ total_ppu_cy > 0
    /\ total_ppu_cy < master_cy

(***************************************************************************)
(* SpecDma: bus loads and stores in 0x4300..0x43FF of the system banks,    *)
(* Peripherals::load / store (src/snes.rs:78-79, 121-124).  What a         *)
(* DmaChannel does with the access is outside src/; the model follows the  *)
(* access up to the call: the element of `dma` indexed and the register    *)
(* index passed.                                                           *)
(***************************************************************************)
\* pub dma: [DmaChannel; 8]
DmaChannelCount == 8

\* (addr as usize & 0x00f0) >> 4
dma_channel(addr) == (addr % 256) \div 16

\* addr as u8 & 0xf
dma_register(addr) == addr % 16

\* self.dma[i]: a slice index out of range panics in every build
DmaIndex(i) ==
    IF i < DmaChannelCount THEN "none" ELSE "index out of bounds: the len is 8"

DmaBanks == {0, 63, 128, 191}
DmaAddrs ==
    {17152, 17167, 17168, 17189, 17264, 17279, 17280, 17317, 17392, 17407}
DmaValues == {0, 255}

DmaAccess(kind, bank, addr, value) ==
    /\ trap = "none"
    /\ IsSystemBank(bank) /\ addr \in 17152..17407
    /\ trap' = DmaIndex(dma_channel(addr))
    /\ peri_op' = [kind |-> kind, bank |-> bank, addr |-> addr, val |-> value]
    /\ peri_ret' = IF DmaIndex(dma_channel(addr)) = "none"
                   THEN [channel |-> dma_channel(addr),
                         register |-> dma_register(addr)]
                   ELSE peri_ret
    /\ UNCHANGED <<a, x, y, s, dbr, pbr, d, pc, p, emulation, mem, build, bus>>
    /\ UNCHANGED <<dispVars, stackVars, schedVars, amVars, onceVars>>
    /\ UNCHANGED <<wram, ppu, ppu_op, ppu_ret, ppu_pc, visible_sprites,
                   scanned, built_for>>

DmaLoad == \E bank \in DmaBanks, addr \in DmaAddrs :
               DmaAccess("dma load", bank, addr, 0)

DmaStore == \E bank \in DmaBanks, addr \in DmaAddrs, value \in DmaValues :
                DmaAccess("dma store", bank, addr, value)

InitDmaSpec ==
    /\ InitCpu(ResetCpu(0, 128))
    /\ InitDisp
    /\ InitStk
    /\ InitSched
    /\ InitAm
    /\ InitDev
    /\ InitOnce

NextDma == DmaLoad \/ DmaStore

SpecDma == InitDmaSpec /\ [][NextDma]_vars

\* a load or store in 0x4300..0x43FF has been served
DmaServed == peri_op.kind \in {"dma load", "dma store"}

\* C39: every bus load or store in 0x4300..0x43FF of banks 0x00-0x3F /
\* 0x80-0xBF is routed to one of the 8 DMA channels: the channel index is
\* in 0..7 and the register index in 0..15, and the access does not trap.
C39_DmaRouting ==
    DmaServed =>
        /\ trap = "none"
        /\ dma_channel(peri_op.addr) \in 0..(DmaChannelCount - 1)
        /\ dma_register(peri_op.addr) \in 0..15
        /\ peri_ret = [channel |-> dma_channel(peri_op.addr),
                       register |-> dma_register(peri_op.addr)]

\* what holds: the accesses in 0x4300..0x437F are routed to channel
\* (addr >> 4) & 7, the others index the array at 8..15 and panic
DmaRoutingLowHalf ==
    DmaServed =>
        /\ dma_register(peri_op.addr) \in 0..15
        /\ dma_channel(peri_op.addr) \in 0..15
        /\ peri_op.addr < 17280 =>
              /\ trap = "none"
              /\ peri_ret.channel \in 0..(DmaChannelCount - 1)
        /\ peri_op.addr >= 17280 <=> trap # "none"

\* the panics of AddressingMode for an accessor used on the wrong variant
\* (src/cpu.rs:677-678, 688-689, 724-725)
UsageTraps ==
    {"loadb on 16-bit immediate", "loadw on 8-bit immediate",
     "attempted to take the address of an immediate value"}

\* the bytes the instruction executed last fetched: opcode and operand
Fetched == Len(SelectSeq(bus, LAMBDA e : e.kind = "fetch"))

\* C40: no instruction of dispatch's opcode table raises an addressing
\* usage trap in any CPU state: the immediate operand of ADC / LDA is one
\* byte iff the 8-bit-accumulator flag is set, that of LDX / LDY / CPX one
\* byte iff the 8-bit-index flag is set, that of REP / SEP always one byte,
\* and the opcode body reads it at that width; no opcode takes the address
\* of an immediate or stores through one.
C40_NoUsageTrap ==
    /\ trap \notin UsageTraps
    /\ (trap = "none" /\ op \in {105, 169}) =>
          Fetched = IF Flag(SMALL_ACC_FLAG) THEN 2 ELSE 3
    /\ (trap = "none" /\ op \in {160, 162, 224}) =>
          Fetched = IF Flag(SMALL_INDEX_FLAG) THEN 2 ELSE 3
    /\ (trap = "none" /\ op \in {194, 226}) => Fetched = 2

\* in emulation mode with the 8-bit-accumulator flag cleared by PLP, LDA
\* took a 16-bit immediate and loaded it whole
C40_Witness ==
    /\ op = 169 /\ trap = "none" /\ steps = 2
    /\ emulation /\ ~Flag(SMALL_ACC_FLAG)
    /\ Fetched = 3 /\ a = 4736

====
